---- MODULE Spec2Model ----
(***************************************************************************)
(* Storefront of artesanato_shop: the local product cache                  *)
(* (src/js/utils/cache.js), the products module (src/js/app/products.js),  *)
(* the category bar and modal wiring (src/js/app/events.js,                *)
(* src/js/handlers/global-events.js) and the modal (src/js/app/modal.js).  *)
(***************************************************************************)
EXTENDS Integers, Sequences, FiniteSets, TLC

\* ------------------------------------------------------------------------
\* Bounds of the model
\* ------------------------------------------------------------------------
MaxTicks == 3
MaxVersion == 2

\* ------------------------------------------------------------------------
\* Program constants
\* ------------------------------------------------------------------------
CACHE_DURATION == 24 * 60 * 60 * 1000

\* null, and the marker "get() was not the last cache operation"
Null == [kind |-> "null"]
NotCalled == [kind |-> "notcalled"]
NoEntry == [kind |-> "absent"]

\* Product lists handed to cache.set (ids as the JSON file / Firestore give them)
\* a JavaScript array value
Array(items) == [kind |-> "array", items |-> items]

CacheLists ==
    { Array(<< >>),
      Array(<< [id |-> 1, name |-> "Vase", category |-> "decor"] >>),
      Array(<< [id |-> 1, name |-> "Vase", category |-> "decor"],
               [id |-> 2, name |-> "Mug", category |-> "kitchen"] >>) }

VARIABLES
    storage,        \* localStorage[CACHE_KEY]: NoEntry or the stored text
    now,            \* Date.now()
    ticks,          \* number of clock advances so far
    cacheVersion,   \* CACHE_VERSION of the code now running (index of the release)
    ret,            \* value returned by the last cache.get(), NotCalled otherwise
    setRet,         \* value returned by the last cache.set()
    lastWrite       \* the last successful write: [data, time, version], or Null

VARIABLES
    phase,            \* "constructed" until initialize() has run, then "running"
    firebaseReady,    \* typeof firebase !== 'undefined' && firebase.firestore
    remote,           \* the products collection, in orderBy('name') order
    products,         \* state.products
    lastVisibleDoc,   \* products.js: cursor, Null or a document snapshot
    hasMoreProducts,  \* products.js
    isLoadingMore,    \* products.js
    inflight,         \* the product queries awaiting their snapshot
    fetches,          \* number of queries issued so far
    container,        \* children of dom.products.container
    timers,           \* pending setTimeout callbacks, in the order they were set
    activeCats,       \* data-category of the buttons that carry class "active"
    searchValue,      \* dom.products.searchInput.value
    event,            \* the handler that ran last, with what it did
    rendered,         \* the renderProducts call that has just completed, or Null
    pagingOnly        \* only fetches and append renders have run so far

VARIABLES
    modalOpen,        \* the <dialog> is shown (showModal() without close())
    modalActive,      \* dom.modal.container has class "active"
    modalClosing,     \* dom.modal.container has class "closing"
    modalContent,     \* id of the product whose data fills the modal, or Null
    zoomed,           \* dom.modal.imageContainer has class "zoomed"
    previouslyFocusedElement,   \* state.previouslyFocusedElement
    scrollLockY,      \* state.scrollLockY
    noScroll,         \* document.body has class "no-scroll"
    bodyTop,          \* document.body.style.top: Null for '', else the offset
    scrollY,          \* window.scrollY
    focus,            \* document.activeElement
    closeListeners,   \* 'transitionend' listeners closeModal has registered
    rafPending,       \* requestAnimationFrame callbacks of openModal not yet run
    focusTimers,      \* pending 100 ms timers that focus the close button
    modalLog          \* where the current open/close cycle stands, and how it began

VARIABLES
    probe,            \* the repeated loadProducts call under observation, or Null
    categoriesRet,    \* how the loadCategories promise settled, Null before
    categoryButtons,  \* slugs of the buttons renderCategoryButtons has added
    selectedProducts, \* selectedProducts of the admin page
    productDocs,      \* the products collection: per id Null or the document
    categoryDocs,     \* slugs of the documents of the categories collection
    adminList,        \* ids of the rows (checkboxes) of the admin product table
    bulkOp,           \* the bulk operation awaiting a read or its commit, or Null
    batches,          \* the batched writes committed so far
    adminLog,         \* the admin handler that finished last, with what it did
    categoryDelete,   \* the deleteCategory call awaiting a read or its delete, or Null
    productForm,      \* the product form of the back office
    zoomTransform,    \* style.transform of the main image of the modal
    touchZoomState,   \* touchZoomState of helpers/zoom.js
    entryScript       \* the entry script the page loads

cacheVars == <<storage, now, ticks, cacheVersion, ret, setRet, lastWrite>>

\* the variables outside the cache, the catalogue page and the modal
categoryVars == <<categoriesRet, categoryButtons>>

adminVars == <<selectedProducts, productDocs, categoryDocs, adminList, bulkOp,
               batches, adminLog>>

otherVars == <<categoryDelete, productForm, zoomTransform, touchZoomState, entryScript>>

extraVars == <<probe, categoryVars, adminVars, otherVars>>

modalVars == <<modalOpen, modalActive, modalClosing, modalContent, zoomed,
               previouslyFocusedElement, scrollLockY, noScroll, bodyTop, scrollY,
               focus, closeListeners, rafPending, focusTimers, modalLog>>

pageVars == <<phase, firebaseReady, remote, products, lastVisibleDoc,
              hasMoreProducts, isLoadingMore, inflight, fetches, container,
              timers, activeCats, searchValue, rendered, pagingOnly>>

catalogVars == <<phase, firebaseReady, remote, products, lastVisibleDoc,
                 hasMoreProducts, isLoadingMore, inflight, fetches, container,
                 timers, activeCats, searchValue,
                 event, rendered, pagingOnly>>

vars == <<storage, now, ticks, cacheVersion, ret, setRet, lastWrite,
          phase, firebaseReady, remote, products, lastVisibleDoc,
          hasMoreProducts, isLoadingMore, inflight, fetches, container,
          timers, activeCats, searchValue,
          event, rendered, pagingOnly,
          modalOpen, modalActive, modalClosing, modalContent, zoomed,
          previouslyFocusedElement, scrollLockY, noScroll, bodyTop, scrollY,
          focus, closeListeners, rafPending, focusTimers, modalLog,
          probe, categoriesRet, categoryButtons, selectedProducts,
          productDocs, categoryDocs, adminList, bulkOp, batches,
          adminLog, categoryDelete, productForm, zoomTransform,
          touchZoomState, entryScript>>

\* ------------------------------------------------------------------------
\* Values of the storefront
\* ------------------------------------------------------------------------
\* text is a sequence of one-character strings
\* the documents of the products collection, in the order of orderBy('name');
\* a document without name or category has the empty value there
SmallRemote ==
    << [id |-> "m7", active |-> FALSE, name |-> <<"M", "u", "g">>,
        category |-> "kitchen", description |-> << >>],
       [id |-> "b2", active |-> TRUE, name |-> <<"P", "o", "t">>,
        category |-> "kitchen", description |-> <<"m", "u", "d">>],
       [id |-> "k4", active |-> TRUE, name |-> <<"V", "a", "s", "e">>,
        category |-> "decor", description |-> << >>],
       [id |-> "z9", active |-> TRUE, name |-> << >>,
        category |-> "", description |-> << >>] >>

\* a collection with one document more than a page holds
BigRemote ==
    [i \in 1..21 |->
        [id |-> ToString(100 + i), active |-> TRUE, name |-> <<"P", "o", "t">>,
         category |-> IF i % 2 = 0 THEN "decor" ELSE "kitchen",
         description |-> << >>]]

\* the static category buttons, in document order
CategoryButtons == <<"all", "decor", "kitchen">>

\* texts a visitor types into the search box
SearchInputs == { << >>, <<" ">>, <<"M", "U">>, <<"v", "a">>, <<"x">> }

\* the children of the container
Card(p) == [kind |-> "card", id |-> p.id]
ErrorMessage == [kind |-> "message", text |-> "error"]
NoResultsMessage == [kind |-> "message", text |-> "no-results"]

\* filter arguments of loadProducts: a string, or an array of slugs
FilterString(s) == [kind |-> "string", value |-> s]
FilterArray(items) == [kind |-> "array", items |-> items]
FilterAll == FilterString("all")

Range(f) == {f[i] : i \in DOMAIN f}

\* the handler that ran, what became of its query and of the fetchProducts
\* promise, and the button it was about
Ev(name, query, promise, arg) ==
    [name |-> name, query |-> query, promise |-> promise, arg |-> arg]

\* a JavaScript number, and a DOM element
Number(n) == [kind |-> "number", value |-> n]
Element(name) == [kind |-> "element", name |-> name]

\* the modal before it was ever opened, the page at the top, nothing focused
ModalConstructed ==
    /\ modalOpen = FALSE
    /\ modalActive = FALSE
    /\ modalClosing = FALSE
    /\ modalContent = Null
    /\ zoomed = FALSE
    /\ previouslyFocusedElement = Null
    /\ scrollLockY = Null
    /\ noScroll = FALSE
    /\ bodyTop = Null
    /\ scrollY = 0
    /\ focus = Element("body")
    /\ closeListeners = 0
    /\ rafPending = 0
    /\ focusTimers = 0
    /\ modalLog = [stage |-> "closed", y |-> 0, f |-> Element("body")]

\* ids of product documents of the back office
AdminIds == {"1", "2"}

\* the product form as the page builds it: closed, no error shown
FormIdle ==
    [currentProductId |-> Null, open |-> FALSE, errors |-> {}, focus |-> "none",
     pending |-> Null]

\* the main image without a transform
NoTransform == [kind |-> "none"]

\* no pinch under way; the scale is in tenths
TouchIdle == [isZooming |-> FALSE, currentScale |-> 10]

\* the forms of the back office untouched, the image of the modal as built
FormsIdle ==
    /\ categoryDelete = Null
    /\ productForm = FormIdle
    /\ zoomTransform = NoTransform
    /\ touchZoomState = TouchIdle

\* the same, on a storefront loaded by main-modular.js
OtherIdle ==
    /\ FormsIdle
    /\ entryScript = "main-modular.js"

\* no category loaded on the storefront, nothing done in the back office
AdminIdle ==
    /\ probe = Null
    /\ categoriesRet = Null
    /\ categoryButtons = << >>
    /\ selectedProducts = {}
    /\ productDocs = [id \in AdminIds |-> Null]
    /\ categoryDocs = {}
    /\ adminList = {}
    /\ bulkOp = Null
    /\ batches = << >>
    /\ adminLog = [name |-> "none"]

\* nothing outside the cache, the catalogue page and the modal has happened
ExtraIdle ==
    /\ AdminIdle
    /\ OtherIdle

\* state of the module variables and of the page after construction
CatalogConstructed ==
    /\ phase = "constructed"
    /\ products = << >>
    /\ lastVisibleDoc = Null
    /\ hasMoreProducts = TRUE
    /\ isLoadingMore = FALSE
    /\ inflight = << >>
    /\ fetches = 0
    /\ container = << >>
    /\ timers = << >>
    /\ activeCats = {}
    /\ searchValue = << >>
    /\ event = Ev("none", "none", "none", "")
    /\ rendered = Null
    /\ pagingOnly = TRUE

\* ------------------------------------------------------------------------
\* utils/cache.js
\* ------------------------------------------------------------------------
\* JSON.stringify of the envelope {data, version, timestamp}
JSONStringify(cacheData) ==
    [kind |-> "text", json |-> [kind |-> "object", data |-> cacheData.data,
                                version |-> cacheData.version,
                                timestamp |-> cacheData.timestamp]]

\* JSON.parse: the parsed value, or a thrown SyntaxError
JSONParse(text) ==
    CASE text.kind = "garbage" -> [threw |-> TRUE, value |-> Null]
      [] text.kind = "jsonnull" -> [threw |-> FALSE, value |-> Null]
      [] OTHER -> [threw |-> FALSE,
                   value |-> [data |-> text.json.data, version |-> text.json.version,
                              timestamp |-> text.json.timestamp]]

\* the expiry test of get(): now - cacheData.timestamp > CACHE_DURATION
IsExpiredOffByOne(t, timestamp) == t - timestamp >= CACHE_DURATION

IsExpired(t, timestamp) == t - timestamp > CACHE_DURATION

\* get() without the clear() of the expiry branch
CacheGetOutcomeKeepExpired(st, t, version) ==
    IF st = NoEntry THEN [ret |-> Null, storage |-> st]
    ELSE LET parsed == JSONParse(st) IN
         IF parsed.threw \/ parsed.value = Null
         THEN [ret |-> Null, storage |-> NoEntry]
         ELSE IF parsed.value.version # version
         THEN [ret |-> Null, storage |-> NoEntry]
         ELSE IF IsExpired(t, parsed.value.timestamp)
         THEN [ret |-> Null, storage |-> st]
         ELSE [ret |-> parsed.value.data, storage |-> st]

\* get(): the returned value and the storage it leaves
CacheGetOutcome(st, t, version) ==
    IF st = NoEntry THEN [ret |-> Null, storage |-> st]
    ELSE LET parsed == JSONParse(st) IN
         \* a SyntaxError of JSON.parse, or the TypeError of null.version
         IF parsed.threw \/ parsed.value = Null
         THEN [ret |-> Null, storage |-> NoEntry]
         ELSE IF parsed.value.version # version
         THEN [ret |-> Null, storage |-> NoEntry]
         ELSE IF IsExpired(t, parsed.value.timestamp)
         THEN [ret |-> Null, storage |-> NoEntry]
         ELSE [ret |-> parsed.value.data, storage |-> st]

\* cache.set(data); localStorage.setItem may throw (quota), then false
CacheSet(data, quotaError) ==
    /\ IF quotaError
       THEN /\ setRet' = FALSE
            /\ UNCHANGED <<storage, lastWrite>>
       ELSE /\ storage' = JSONStringify([data |-> data, version |-> cacheVersion,
                                         timestamp |-> now])
            /\ setRet' = TRUE
            /\ lastWrite' = [data |-> data, time |-> now, version |-> cacheVersion]
    /\ ret' = NotCalled
    /\ UNCHANGED <<now, ticks, cacheVersion>>
    /\ UNCHANGED <<catalogVars, modalVars, extraVars>>

CacheGet ==
    LET out == CacheGetOutcome(storage, now, cacheVersion) IN
    /\ ret' = out.ret
    /\ storage' = out.storage
    /\ UNCHANGED <<now, ticks, cacheVersion, setRet, lastWrite>>
    /\ UNCHANGED <<catalogVars, modalVars, extraVars>>

\* cache.clear()
CacheClear ==
    /\ storage' = NoEntry
    /\ lastWrite' = Null
    /\ ret' = NotCalled
    /\ UNCHANGED <<now, ticks, cacheVersion, setRet>>
    /\ UNCHANGED <<catalogVars, modalVars, extraVars>>

\* time passes (1 ms, one millisecond short of the window, the whole window)
Tick ==
    /\ ticks < MaxTicks
    /\ \E d \in {1, CACHE_DURATION - 1, CACHE_DURATION} : now' = now + d
    /\ ticks' = ticks + 1
    /\ ret' = NotCalled
    /\ UNCHANGED <<storage, cacheVersion, setRet, lastWrite>>
    /\ UNCHANGED <<catalogVars, modalVars, extraVars>>

\* a release that increments CACHE_VERSION is loaded
BumpVersion ==
    /\ cacheVersion < MaxVersion
    /\ cacheVersion' = cacheVersion + 1
    /\ ret' = NotCalled
    /\ UNCHANGED <<storage, now, ticks, setRet, lastWrite>>
    /\ UNCHANGED <<catalogVars, modalVars, extraVars>>

\* what an earlier visit may have left under CACHE_KEY
InitialStorage ==
    { NoEntry, [kind |-> "garbage"], [kind |-> "jsonnull"] }
    \cup { JSONStringify([data |-> d, version |-> v, timestamp |-> 0]) :
             d \in CacheLists, v \in {0, 1} }

InitCache ==
    /\ CatalogConstructed
    /\ ModalConstructed
    /\ ExtraIdle
    /\ remote = SmallRemote
    /\ firebaseReady = TRUE
    /\ storage \in InitialStorage
    /\ now \in {0, CACHE_DURATION, CACHE_DURATION + 1}
    /\ ticks = 0
    /\ cacheVersion = 1
    /\ ret = NotCalled
    /\ setRet = TRUE
    /\ lastWrite = Null

NextCache ==
    \/ \E d \in CacheLists, q \in BOOLEAN : CacheSet(d, q)
    \/ CacheGet
    \/ CacheClear
    \/ Tick
    \/ BumpVersion

SpecCache == InitCache /\ [][NextCache]_vars

\* ------------------------------------------------------------------------
\* Properties of the cache
\* ------------------------------------------------------------------------
\* get() has just returned, and the entry it read is the one written by the
\* last successful set()
GetAfterSet == ret # NotCalled /\ lastWrite # Null

\* C3 (as stated): after set(X) at t, get() at t' returns X iff the version
\* is unchanged and t' - t < CACHE_DURATION, and null in every other case.
C3_Original ==
    GetAfterSet =>
        IF cacheVersion = lastWrite.version /\ now - lastWrite.time < CACHE_DURATION
        THEN ret = lastWrite.data
        ELSE ret = Null

\* C3 (amended): after set(X) at t, get() at t' returns X iff the version is
\* unchanged and t' - t <= CACHE_DURATION (the entry is still served at
\* exactly 24h), and null in every other case.
C3_RoundTrip ==
    GetAfterSet =>
        IF cacheVersion = lastWrite.version /\ now - lastWrite.time <= CACHE_DURATION
        THEN ret = lastWrite.data
        ELSE ret = Null

C3_Witness ==
    /\ GetAfterSet
    /\ cacheVersion = lastWrite.version
    /\ now - lastWrite.time = CACHE_DURATION
    /\ ret = lastWrite.data
    /\ Len(ret.items) > 0

\* the three ways get() finds a stored entry not valid
EntryNotValid(st, t, version) ==
    /\ st # NoEntry
    /\ \/ st.kind \in {"garbage", "jsonnull"}
       \/ st.kind = "text" /\ st.json.version # version
       \/ st.kind = "text" /\ t - st.json.timestamp > CACHE_DURATION

\* C4: when get() finds a stored entry that is not valid (version mismatch,
\* expired, unparsable) the entry is removed and null is returned; when
\* get() returns data the stored entry is unchanged.
C4_InvalidEntryRemoved ==
    [][ret' # NotCalled =>
          /\ EntryNotValid(storage, now, cacheVersion)
                => (storage' = NoEntry /\ ret' = Null)
          /\ ret' # Null => storage' = storage]_vars

C4_Witness ==
    /\ ret = Null
    /\ storage = NoEntry
    /\ lastWrite # Null
    /\ now - lastWrite.time > CACHE_DURATION

\* ------------------------------------------------------------------------
\* Bounds of the storefront model
\* ------------------------------------------------------------------------
MaxFetches == 3
MaxTimers == 1

PRODUCTS_PER_PAGE == 20
FADE_OUT_DELAY == 300
SEARCH_RENDER_DELAY == 200
DEBOUNCE_WAIT == 300

\* ------------------------------------------------------------------------
\* String helpers of the search path
\* ------------------------------------------------------------------------
LowerChar(c) ==
    CASE c = "M" -> "m" [] c = "U" -> "u" [] c = "P" -> "p" [] c = "V" -> "v"
      [] c = "S" -> "s" [] c = "D" -> "d" [] OTHER -> c

\* String.prototype.toLowerCase
ToLowerCase(t) == [i \in DOMAIN t |-> LowerChar(t[i])]

\* String.prototype.trim
RECURSIVE Trim(_)
Trim(t) ==
    IF t = << >> THEN t
    ELSE IF Head(t) = " " THEN Trim(Tail(t))
    ELSE IF t[Len(t)] = " " THEN Trim(SubSeq(t, 1, Len(t) - 1))
    ELSE t

\* String.prototype.includes
Includes(hay, needle) ==
    \E i \in 0..(Len(hay) - Len(needle)) : SubSeq(hay, i + 1, i + Len(needle)) = needle

\* ------------------------------------------------------------------------
\* app/products.js
\* ------------------------------------------------------------------------
\* the document mapping of fetchProducts: data.name || 'Sem nome', ...
MapDoc(doc) ==
    [id |-> doc.id,
     name |-> IF doc.name = << >> THEN <<"S", "e", "m", " ", "n", "o", "m", "e">>
              ELSE doc.name,
     category |-> IF doc.category = "" THEN "Outros" ELSE doc.category,
     description |-> doc.description]

\* a document snapshot kept as the cursor
DocSnapshot(doc) == [kind |-> "doc", id |-> doc.id]

MapDocs(docs) == [i \in DOMAIN docs |-> MapDoc(docs[i])]

\* the query without startAfter: every page is the first one
QueryDocsFromStart(coll, cursor) ==
    LET act == SelectSeq(coll, LAMBDA d : d.active)
    IN SubSeq(act, 1, IF Len(act) < PRODUCTS_PER_PAGE THEN Len(act)
                      ELSE PRODUCTS_PER_PAGE)

\* where('active','==',true).orderBy('name').limit(20), after the cursor
QueryDocs(coll, cursor) ==
    LET act == SelectSeq(coll, LAMBDA d : d.active)
        pos == IF cursor = Null THEN 0
               ELSE IF \E i \in DOMAIN act : act[i].id = cursor.id
                    THEN CHOOSE i \in DOMAIN act : act[i].id = cursor.id
                    ELSE 0
        rest == SubSeq(act, pos + 1, Len(act))
    IN SubSeq(rest, 1, IF Len(rest) < PRODUCTS_PER_PAGE THEN Len(rest)
                       ELSE PRODUCTS_PER_PAGE)

\* the first early return of fetchProducts, without the guard
FetchGuardMissing(loading) == FALSE

\* the first early return of fetchProducts: if (isLoadingMore) return
FetchGuard(loading) == loading

\* the guard of loadMoreProducts: if (!hasMoreProducts || isLoadingMore) return
LoadMoreBlocked(more, loading) == ~more \/ loading

\* what fetchProducts does with a caught error, swallowing it
CatchOutcomeSwallow == "resolved"

\* what fetchProducts does with a caught error: throw err
CatchOutcome == "rejected"

\* getCurrentFilter, and the same lines in filterProductsBySearch
SelectedCategories(active) ==
    SelectSeq(CategoryButtons, LAMBDA c : c \in active /\ c # "all")

GetCurrentFilter(active) ==
    IF Len(SelectedCategories(active)) > 0
    THEN FilterArray(SelectedCategories(active))
    ELSE FilterAll

\* the filter of an empty search, ignoring the active buttons
SearchEmptyFilterAll(active) == FilterAll

\* filterProductsBySearch with an empty term: the filter it reapplies
SearchEmptyFilter(active) == GetCurrentFilter(active)

\* renderProducts, comparing an array filter as if it were a string
FilterByCategoryStringOnly(prods, filter) ==
    IF filter.kind = "array"
    THEN prods
    ELSE IF filter # FilterAll
    THEN SelectSeq(prods, LAMBDA q : q.category = filter.value)
    ELSE prods

\* renderProducts: the category filter
FilterByCategory(prods, filter) ==
    IF filter.kind = "array"
    THEN SelectSeq(prods, LAMBDA q : q.category \in Range(filter.items))
    ELSE IF filter # FilterAll
    THEN SelectSeq(prods, LAMBDA q : q.category = filter.value)
    ELSE prods

Cards(prods) == [i \in DOMAIN prods |-> Card(prods[i])]

\* querySelectorAll('.product-card')
ProductCards(cont) == SelectSeq(cont, LAMBDA n : n.kind = "card")

\* renderProducts that neither clears the container nor skips rendered ids
RenderProductsNoClear(cont, prods, filter, append) ==
    cont \o Cards(FilterByCategory(prods, filter))

\* renderProducts(dom, products, filter, append)
RenderProducts(cont, prods, filter, append) ==
    LET base == IF append THEN cont ELSE << >>
        existingIds == {n.id : n \in Range(ProductCards(base))}
        filtered == FilterByCategory(prods, filter)
        fresh == IF append
                 THEN SelectSeq(filtered, LAMBDA q : q.id \notin existingIds)
                 ELSE filtered
    IN base \o Cards(fresh)

\* loadProducts(dom, products, filter, append): the container, the timers and
\* the completed render it leaves
LoadProducts(cont, tms, prods, filter, append, origin, active) ==
    IF append
    THEN [container |-> RenderProducts(cont, prods, filter, TRUE),
          timers |-> tms, rendered |-> Null]
    ELSE IF Len(ProductCards(cont)) > 0
    THEN [container |-> cont,
          timers |-> Append(tms, [kind |-> "render", delay |-> FADE_OUT_DELAY,
                                  products |-> prods, filter |-> filter,
                                  origin |-> origin, active |-> active]),
          rendered |-> Null]
    ELSE [container |-> RenderProducts(cont, prods, filter, FALSE),
          timers |-> tms,
          rendered |-> [products |-> prods, filter |-> filter,
                        origin |-> origin, active |-> active]]

\* filterProductsBySearch with a term: the matching products
SearchMatches(prods, term) ==
    SelectSeq(prods, LAMBDA q : \/ Includes(ToLowerCase(q.name), term)
                                \/ Includes(ToLowerCase(q.description), term))

\* fetchProducts up to its await, when firebase is missing: state.products = [],
\* the error message, and the rethrow
FetchNotConfigured(name) ==
    /\ products' = << >>
    /\ container' = <<ErrorMessage>>
    /\ event' = Ev(name, "failed", CatchOutcome, "")
    /\ rendered' = Null
    /\ UNCHANGED <<lastVisibleDoc, hasMoreProducts, isLoadingMore, inflight,
                   fetches, timers>>

\* fetchProducts up to its await: the query is built and issued
FetchIssue(name, caller, loadMore) ==
    /\ fetches < MaxFetches
    /\ isLoadingMore' = TRUE
    /\ inflight' = Append(inflight,
                          [caller |-> caller, loadMore |-> loadMore,
                           cursor |-> IF loadMore THEN lastVisibleDoc ELSE Null])
    /\ IF loadMore
       THEN UNCHANGED <<lastVisibleDoc, hasMoreProducts>>
       ELSE lastVisibleDoc' = Null /\ hasMoreProducts' = TRUE
    /\ fetches' = fetches + 1
    /\ event' = Ev(name, "issued", "pending", "")
    /\ rendered' = Null
    /\ UNCHANGED <<products, container, timers>>

\* ArtesanatoShop.initialize: the 'all' button, the listeners, loadProductsData
AppInitialize ==
    /\ phase = "constructed"
    /\ phase' = "running"
    /\ activeCats' = activeCats \cup {"all"}
    /\ IF firebaseReady
       THEN FetchIssue("initialize", "init", FALSE)
       ELSE FetchNotConfigured("initialize")
    /\ UNCHANGED <<firebaseReady, remote, searchValue, pagingOnly>>
    /\ UNCHANGED <<cacheVars, modalVars, extraVars>>

\* callbacks.onLoadMore: loadMoreProducts
LoadMore ==
    /\ phase = "running"
    /\ IF LoadMoreBlocked(hasMoreProducts, isLoadingMore)
       THEN /\ event' = Ev("loadMore", "none", "none", "ignored")
            /\ rendered' = Null
            /\ UNCHANGED <<products, lastVisibleDoc, hasMoreProducts, isLoadingMore,
                           inflight, fetches, container, timers>>
       ELSE IF FetchGuard(isLoadingMore) \/ ~hasMoreProducts
       THEN \* fetchProducts returns state.products, then the append render
            /\ container' = RenderProducts(container, products,
                                           GetCurrentFilter(activeCats), TRUE)
            /\ event' = Ev("loadMore", "none", "resolved", "")
            /\ rendered' = Null
            /\ UNCHANGED <<products, lastVisibleDoc, hasMoreProducts, isLoadingMore,
                           inflight, fetches, timers>>
       ELSE IF firebaseReady
       THEN FetchIssue("loadMore", "more", TRUE)
       ELSE FetchNotConfigured("loadMore")
    /\ UNCHANGED <<phase, firebaseReady, remote, activeCats, searchValue, pagingOnly>>
    /\ UNCHANGED <<cacheVars, modalVars, extraVars>>

\* app.forceRefresh: fetchProducts, then loadProducts 'all'
ForceRefresh ==
    /\ phase = "running"
    /\ IF FetchGuard(isLoadingMore)
       THEN LET r == LoadProducts(container, timers, products, FilterAll, FALSE,
                                  "refresh", activeCats) IN
            /\ Len(r.timers) <= MaxTimers
            /\ container' = r.container
            /\ timers' = r.timers
            /\ rendered' = r.rendered
            /\ event' = Ev("refresh", "none", "resolved", "")
            /\ UNCHANGED <<products, lastVisibleDoc, hasMoreProducts, isLoadingMore,
                           inflight, fetches>>
       ELSE IF firebaseReady
       THEN FetchIssue("refresh", "refresh", FALSE)
       ELSE FetchNotConfigured("refresh")
    /\ UNCHANGED <<phase, firebaseReady, remote, activeCats, searchValue, pagingOnly>>
    /\ UNCHANGED <<cacheVars, modalVars, extraVars>>

\* the snapshot of the oldest pending query arrives: the rest of fetchProducts
\* and of its caller
FetchSucceeds ==
    /\ inflight # << >>
    /\ LET q == Head(inflight)
           docs == QueryDocs(remote, q.cursor)
           newProducts == MapDocs(docs)
           all == IF q.loadMore THEN products \o newProducts ELSE newProducts
           r == IF q.caller = "more"
                THEN LoadProducts(container, timers, all,
                                  GetCurrentFilter(activeCats), TRUE, "more", activeCats)
                ELSE LoadProducts(container, timers, all, FilterAll, FALSE,
                                  q.caller, activeCats)
       IN /\ Len(r.timers) <= MaxTimers
          /\ hasMoreProducts' = (Len(docs) = PRODUCTS_PER_PAGE)
          /\ lastVisibleDoc' = IF Len(docs) > 0 THEN DocSnapshot(docs[Len(docs)])
                               ELSE lastVisibleDoc
          /\ products' = all
          /\ container' = r.container
          /\ timers' = r.timers
          /\ rendered' = r.rendered
          /\ event' = Ev("settle", "ok", "resolved", q.caller)
    /\ inflight' = Tail(inflight)
    /\ isLoadingMore' = FALSE
    /\ UNCHANGED <<phase, firebaseReady, remote, fetches, activeCats, searchValue,
                   pagingOnly>>
    /\ UNCHANGED <<cacheVars, modalVars, extraVars>>

\* the oldest pending query fails: catch, finally, and the caller
FetchFails ==
    /\ inflight # << >>
    /\ LET q == Head(inflight)
           r == IF q.caller = "more"
                THEN LoadProducts(<<ErrorMessage>>, timers, products,
                                  GetCurrentFilter(activeCats), TRUE, "more", activeCats)
                ELSE LoadProducts(<<ErrorMessage>>, timers, products, FilterAll, FALSE,
                                  q.caller, activeCats)
       IN IF CatchOutcome = "rejected"
          THEN /\ container' = <<ErrorMessage>>
               /\ rendered' = Null
               /\ UNCHANGED timers
          ELSE /\ container' = r.container
               /\ timers' = r.timers
               /\ rendered' = r.rendered
    /\ event' = Ev("settle", "failed", CatchOutcome, Head(inflight).caller)
    /\ inflight' = Tail(inflight)
    /\ isLoadingMore' = FALSE
    /\ UNCHANGED <<phase, firebaseReady, remote, products, lastVisibleDoc,
                   hasMoreProducts, fetches, activeCats, searchValue, pagingOnly>>
    /\ UNCHANGED <<cacheVars, modalVars, extraVars>>

\* ------------------------------------------------------------------------
\* app/events.js: search box and category bar
\* ------------------------------------------------------------------------
\* handleAllCategoryClick: clearAllCategories, then 'all' if it was not active
HandleAllCategoryClick(active) ==
    IF "all" \notin active THEN {"all"} ELSE {}

\* handleSpecificCategoryClick without deactivateAllCategory
SpecificCategoryClickKeepAll(active, btn) ==
    IF btn \in active THEN active \ {btn} ELSE active \cup {btn}

\* handleSpecificCategoryClick: deactivateAllCategory, then toggle the button
HandleSpecificCategoryClick(active, btn) ==
    IF btn \in active THEN (active \ {"all"}) \ {btn}
    ELSE (active \ {"all"}) \cup {btn}

\* !!(searchInput.value.trim())
HasSearch(value) == Trim(value) # << >>

\* click on a .category button
CategoryClick(btn) ==
    /\ phase = "running"
    /\ LET act == IF btn = "all" THEN HandleAllCategoryClick(activeCats)
                  ELSE HandleSpecificCategoryClick(activeCats, btn)
           selected == SelectedCategories(act)
           filterParam == IF Len(selected) > 0 THEN FilterArray(selected) ELSE FilterAll
           r == LoadProducts(container, timers, products, filterParam, FALSE,
                             "category", act)
       IN /\ activeCats' = act
          /\ IF Len(selected) = 0 /\ ~HasSearch(searchValue) /\ "all" \notin act
             THEN \* hideIfNoSelection
                  /\ container' = << >>
                  /\ rendered' = Null
                  /\ UNCHANGED timers
             ELSE /\ Len(r.timers) <= MaxTimers
                  /\ container' = r.container
                  /\ timers' = r.timers
                  /\ rendered' = r.rendered
    /\ event' = Ev("category", "none", "none", btn)
    /\ pagingOnly' = FALSE
    /\ UNCHANGED <<phase, firebaseReady, remote, products, lastVisibleDoc,
                   hasMoreProducts, isLoadingMore, inflight, fetches, searchValue>>
    /\ UNCHANGED <<cacheVars, modalVars, extraVars>>

\* clearAllCategories that leaves the buttons as they are
ClearAllCategoriesKeep(active) == active

\* clearAllCategories: no button keeps the class "active"
ClearAllCategories(active) == {}

\* click on .clear-filters
ClearFilters ==
    /\ phase = "running"
    /\ activeCats' = ClearAllCategories(activeCats)
    /\ searchValue' = << >>
    /\ container' = << >>
    /\ rendered' = Null
    /\ event' = Ev("clear", "none", "none", "")
    /\ pagingOnly' = FALSE
    /\ UNCHANGED <<phase, firebaseReady, remote, products, lastVisibleDoc,
                   hasMoreProducts, isLoadingMore, inflight, fetches, timers>>
    /\ UNCHANGED <<cacheVars, modalVars, extraVars>>

\* debounce(): clearTimeout of the waiting call, setTimeout of the new one
Debounce(tms) ==
    Append(SelectSeq(tms, LAMBDA t : t.kind # "debounce"),
           [kind |-> "debounce", delay |-> DEBOUNCE_WAIT])

\* 'input' event of the search box
TypeSearch(text) ==
    /\ phase = "running"
    /\ text # searchValue
    /\ Len(Debounce(timers)) <= MaxTimers
    /\ searchValue' = text
    /\ timers' = Debounce(timers)
    /\ rendered' = Null
    /\ event' = Ev("input", "none", "none", "")
    /\ pagingOnly' = FALSE
    /\ UNCHANGED <<phase, firebaseReady, remote, products, lastVisibleDoc,
                   hasMoreProducts, isLoadingMore, inflight, fetches, container,
                   activeCats>>
    /\ UNCHANGED <<cacheVars, modalVars, extraVars>>

\* setTimeout callbacks run in the order of their due times: a timer set later
\* runs earlier only if its delay is shorter
CanFire(tms, i) == \A j \in 1..(i - 1) : tms[j].delay > tms[i].delay

RemoveAt(seq, i) == SubSeq(seq, 1, i - 1) \o SubSeq(seq, i + 1, Len(seq))

\* the debounced input handler: onSearch(value.trim().toLowerCase()),
\* that is filterProductsBySearch
SearchFire(i) ==
    /\ i \in DOMAIN timers
    /\ timers[i].kind = "debounce"
    /\ CanFire(timers, i)
    /\ LET term == ToLowerCase(Trim(searchValue))
           rest == RemoveAt(timers, i)
           r == LoadProducts(container, rest, products, SearchEmptyFilter(activeCats),
                             FALSE, "search", activeCats)
       IN IF term = << >>
          THEN /\ container' = r.container
               /\ timers' = r.timers
               /\ rendered' = r.rendered
          ELSE \* renderFilteredProducts: clear now, fill after 200 ms
               /\ container' = << >>
               /\ timers' = Append(rest, [kind |-> "search",
                                          delay |-> SEARCH_RENDER_DELAY,
                                          products |-> SearchMatches(products, term)])
               /\ rendered' = Null
    /\ event' = Ev("search", "none", "none", "")
    /\ pagingOnly' = FALSE
    /\ UNCHANGED <<phase, firebaseReady, remote, products, lastVisibleDoc,
                   hasMoreProducts, isLoadingMore, inflight, fetches, activeCats,
                   searchValue>>
    /\ UNCHANGED <<cacheVars, modalVars, extraVars>>

\* the setTimeout callback of loadProducts (fade-out over) or of
\* renderFilteredProducts
TimerFire(i) ==
    /\ i \in DOMAIN timers
    /\ timers[i].kind \in {"render", "search"}
    /\ CanFire(timers, i)
    /\ LET t == timers[i] IN
       IF t.kind = "render"
       THEN /\ container' = RenderProducts(container, t.products, t.filter, FALSE)
            /\ rendered' = [products |-> t.products, filter |-> t.filter,
                            origin |-> t.origin, active |-> t.active]
       ELSE LET selected == SelectedCategories(activeCats)
                byCategory == IF Len(selected) > 0
                              THEN SelectSeq(t.products,
                                             LAMBDA q : q.category \in Range(selected))
                              ELSE t.products
            IN /\ container' = IF Len(byCategory) = 0
                               THEN Append(container, NoResultsMessage)
                               ELSE container \o Cards(byCategory)
               /\ rendered' = Null
    /\ timers' = RemoveAt(timers, i)
    /\ event' = Ev("timer", "none", "none", timers[i].kind)
    /\ UNCHANGED <<phase, firebaseReady, remote, products, lastVisibleDoc,
                   hasMoreProducts, isLoadingMore, inflight, fetches, activeCats,
                   searchValue, pagingOnly>>
    /\ UNCHANGED <<cacheVars, modalVars, extraVars>>

\* filters a shell hands to the onCategoryChange hook: 'all', one slug, slugs
FilterInputs ==
    { FilterAll, FilterString("decor"), FilterString("Outros"),
      FilterArray(<<"decor", "kitchen">>), FilterArray(<< >>) }

\* callbacks.onCategoryChange(filter): loadProducts(dom, state.products, filter)
CategoryChange(filter) ==
    /\ phase = "running"
    /\ LET r == LoadProducts(container, timers, products, filter, FALSE,
                             "hook", activeCats)
       IN /\ Len(r.timers) <= MaxTimers
          /\ container' = r.container
          /\ timers' = r.timers
          /\ rendered' = r.rendered
    /\ event' = Ev("hook", "none", "none", "")
    /\ pagingOnly' = FALSE
    /\ UNCHANGED <<phase, firebaseReady, remote, products, lastVisibleDoc,
                   hasMoreProducts, isLoadingMore, inflight, fetches, activeCats,
                   searchValue>>
    /\ UNCHANGED <<cacheVars, modalVars, extraVars>>

\* ------------------------------------------------------------------------
\* The storefront
\* ------------------------------------------------------------------------
CacheIdle ==
    /\ storage = NoEntry
    /\ now = 0
    /\ ticks = 0
    /\ cacheVersion = 1
    /\ ret = NotCalled
    /\ setRet = TRUE
    /\ lastWrite = Null

Init ==
    /\ CatalogConstructed
    /\ ModalConstructed
    /\ ExtraIdle
    /\ remote \in {SmallRemote, BigRemote}
    /\ firebaseReady \in BOOLEAN
    /\ CacheIdle

\* loading and paging, with the category bar
Next ==
    \/ AppInitialize
    \/ LoadMore
    \/ ForceRefresh
    \/ FetchSucceeds
    \/ FetchFails
    \/ \E btn \in Range(CategoryButtons) : CategoryClick(btn)
    \/ ClearFilters
    \/ \E i \in DOMAIN timers : TimerFire(i)

Spec == Init /\ [][Next]_vars

\* the page once initialize() and its first fetch have completed
PageLoaded ==
    /\ phase = "running"
    /\ remote = SmallRemote
    /\ firebaseReady = TRUE
    /\ products = MapDocs(QueryDocs(SmallRemote, Null))
    /\ lastVisibleDoc = DocSnapshot(SmallRemote[4])
    /\ hasMoreProducts = FALSE
    /\ isLoadingMore = FALSE
    /\ inflight = << >>
    /\ fetches = 1
    /\ container = Cards(MapDocs(QueryDocs(SmallRemote, Null)))
    /\ timers = << >>
    /\ activeCats = {"all"}
    /\ searchValue = << >>
    /\ event = Ev("settle", "ok", "resolved", "init")
    /\ rendered = [products |-> MapDocs(QueryDocs(SmallRemote, Null)),
                   filter |-> FilterAll, origin |-> "init", active |-> {"all"}]
    /\ pagingOnly = TRUE

InitLoaded ==
    /\ PageLoaded
    /\ CacheIdle
    /\ ModalConstructed
    /\ ExtraIdle

\* filtering and searching the loaded list
NextFilter ==
    \/ \E btn \in Range(CategoryButtons) : CategoryClick(btn)
    \/ ClearFilters
    \/ \E text \in SearchInputs : TypeSearch(text)
    \/ \E i \in DOMAIN timers : SearchFire(i)
    \/ \E i \in DOMAIN timers : TimerFire(i)
    \/ \E filter \in FilterInputs : CategoryChange(filter)

SpecFilter == InitLoaded /\ [][NextFilter]_vars

\* ------------------------------------------------------------------------
\* app/modal.js, with the handlers of app/events.js and
\* handlers/global-events.js that drive it
\* ------------------------------------------------------------------------
MaxScroll == 1
MaxPending == 2

\* elements of the page, and elements inside the <dialog>
PageElements == {"body", "search-input", "btn-details"}
ModalElements == {"dialog", "close-modal"}

\* values handed to openModal as productId
JSString(s) == [kind |-> "string", value |-> s]
NaN == [kind |-> "nan"]

\* decimal strings, which is what Number.parseInt(text, 10) reads as a number
DecimalStrings == {ToString(i) : i \in 0..999}

\* Number.parseInt(dataset.id, 10) of the product click handler
ParseInt(text) ==
    IF text \in DecimalStrings
    THEN Number(CHOOSE i \in 0..999 : ToString(i) = text)
    ELSE NaN

\* p.id === productId: the ids of a Firestore list are strings
StrictEquals(id, productId) ==
    productId.kind = "string" /\ productId.value = id

\* the text of an id handed to openModal, for the log of the call
IdText(productId) ==
    CASE productId.kind = "string" -> productId.value
      [] productId.kind = "number" -> ToString(productId.value)
      [] OTHER -> "NaN"

FindOrFirst(prods, productId) ==
    IF \E i \in DOMAIN prods : StrictEquals(prods[i].id, productId)
    THEN CHOOSE i \in DOMAIN prods :
            /\ StrictEquals(prods[i].id, productId)
            /\ \A j \in 1..(i - 1) : ~StrictEquals(prods[j].id, productId)
    ELSE IF prods = << >> THEN 0 ELSE 1

\* products.find(p => p.id === productId): the index found, 0 for undefined
Find(prods, productId) ==
    IF \E i \in DOMAIN prods : StrictEquals(prods[i].id, productId)
    THEN CHOOSE i \in DOMAIN prods :
            /\ StrictEquals(prods[i].id, productId)
            /\ \A j \in 1..(i - 1) : ~StrictEquals(prods[j].id, productId)
    ELSE 0

\* element.focus(): an element of a <dialog> that is not shown takes no focus
Focus(current, el, open) ==
    IF el.name \in ModalElements /\ ~open THEN current ELSE el

\* the test closeModal makes of the saved offset before restoring it
HasScrollLockTruthy(saved) == saved.kind = "number" /\ saved.value # 0

\* typeof state.scrollLockY === 'number'
HasScrollLock(saved) == saved.kind = "number"

\* the zoom class once closeModal has run
ZoomAfterCloseKept(z) == z

\* closeModal removes 'zoomed' before it touches the container classes
ZoomAfterClose(z) == FALSE

\* the stage of the open/close cycle once closeModal has been called
CloseRequested(log) ==
    IF log.stage = "opened" THEN [log EXCEPT !.stage = "closeRequested"] ELSE log

\* the body of openModal for a product that exists.  The offset of the
\* window under the 'no-scroll' class depends on the style sheet: either
\* outcome is taken.  showModal() on a dialog that is shown either returns
\* or throws, by the version of the browser: when it throws no animation
\* frame is requested
OpenModalFound(id) ==
    /\ rafPending < MaxPending
    /\ previouslyFocusedElement' = focus
    /\ modalClosing' = FALSE
    /\ scrollLockY' = Number(scrollY)
    /\ bodyTop' = Number(scrollY)
    /\ noScroll' = TRUE
    /\ scrollY' \in {0, scrollY}
    /\ modalOpen' = TRUE
    /\ focus' = IF modalOpen THEN focus ELSE Element("dialog")
    /\ rafPending' \in IF modalOpen THEN {rafPending, rafPending + 1}
                                    ELSE {rafPending + 1}
    /\ modalContent' = JSString(id)
    /\ modalLog' = IF modalOpen
                   THEN [modalLog EXCEPT !.stage = "reopened"]
                   ELSE [stage |-> "opened", y |-> scrollY, f |-> focus]
    /\ UNCHANGED <<modalActive, zoomed, closeListeners, focusTimers>>

\* openModal(dom, products, productId, state)
OpenModalCall(productId, via) ==
    /\ event' = Ev("openModal", IdText(productId), "none", via)
    /\ IF Find(products, productId) = 0
       THEN UNCHANGED modalVars
       ELSE OpenModalFound(products[Find(products, productId)].id)
    /\ UNCHANGED <<cacheVars, pageVars, extraVars>>

\* callbacks.onOpenModal(productId), invoked with the id of a product or
\* with one that no product has
OpenModal(productId) == OpenModalCall(productId, "callback")

\* click on the details button of a card of the container
ClickDetails(i) ==
    /\ ~modalOpen
    /\ container[i].kind = "card"
    /\ OpenModalCall(ParseInt(container[i].id), "click")

\* ------------------------------------------------------------------------
\* helpers/zoom.js and ImageZoomHelpers of main.js: the transform of the
\* zoomed image.  Scales are in tenths, pixel offsets in twentieths of a
\* pixel, so that the arithmetic of the helpers is exact in integers
\* ------------------------------------------------------------------------
Abs(n) == IF n < 0 THEN -n ELSE n
Max(a, b) == IF a > b THEN a ELSE b
Min(a, b) == IF a < b THEN a ELSE b

\* a value of style.transform, with the container it was computed for
Transform(order, unit, x, y, scale, rect) ==
    [kind |-> "transform", order |-> order, unit |-> unit, x |-> x, y |-> y,
     scale |-> scale, width |-> rect.width, height |-> rect.height]

\* Math.max(-maxMove, Math.min(maxMove, translate))
Clamp(maxMove, translate) == Max(-maxMove, Min(maxMove, translate))

\* calculateZoomPosition and calculateTouchZoomPosition of helpers/zoom.js,
\* with the pointer already relative to the container: maxMove is
\* width * (scale - 1) / 2 and translate is (0.5 - x / width) * maxMove * 2
CalculateZoomPosition(x, y, rect, scale) ==
    LET maxMoveX == rect.width * (scale - 10)
        maxMoveY == rect.height * (scale - 10)
        translateX == (rect.width - 2 * x) * (scale - 10)
        translateY == (rect.height - 2 * y) * (scale - 10)
    IN [x |-> Clamp(maxMoveX, translateX), y |-> Clamp(maxMoveY, translateY)]

\* applyZoomTransform of helpers/zoom.js: translate(x px, y px) scale(s)
ApplyZoomTransform(x, y, scale, rect) ==
    Transform("translate-scale", "px", x, y, scale, rect)

\* ImageZoomHelpers.calculateZoomPosition of main.js: the pointer in percent
\* of the container (the widths of the model divide 100)
MainCalculateZoomPosition(x, y, rect) ==
    [moveX |-> (100 * x) \div rect.width, moveY |-> (100 * y) \div rect.height]

\* ImageZoomHelpers.applyZoomTransform of main.js:
\* scale(s) translate((50 - moveX)%, (50 - moveY)%)
MainApplyZoomTransform(moveX, moveY, narrow, rect) ==
    Transform("scale-translate", "percent", 50 - moveX, 50 - moveY,
              IF narrow THEN 15 ELSE 20, rect)

\* handleImageZoom behind its test of the 'zoomed' class: the transform the
\* entry script gives the image for a pointer p
HandleImageZoom(script, p) ==
    LET rect == [width |-> p.width, height |-> p.height]
    IN IF script = "main.js"
       THEN LET pos == MainCalculateZoomPosition(p.x, p.y, rect)
            IN MainApplyZoomTransform(pos.moveX, pos.moveY, p.window = "narrow", rect)
       ELSE LET scale == IF p.window = "narrow" THEN 15 ELSE 25
                pos == CalculateZoomPosition(p.x, p.y, rect, scale)
            IN ApplyZoomTransform(pos.x, pos.y, scale, rect)

\* resetTransform(image) where an action takes the 'zoomed' class away;
\* everything else outside the modal stays
ZoomReset ==
    /\ zoomTransform' = IF zoomed /\ ~zoomed' THEN NoTransform ELSE zoomTransform
    /\ touchZoomState' = IF zoomed /\ ~zoomed' THEN TouchIdle ELSE touchZoomState
    /\ UNCHANGED <<probe, categoryVars, adminVars, categoryDelete, productForm,
                   entryScript>>

\* a click in the middle of the image of a wide window
CentreClicks == {[x |-> 1, y |-> 1, width |-> 2, height |-> 2, window |-> "wide"]}

\* closeModal(dom, state), up to the registration of the listener
CloseModal ==
    /\ closeListeners < MaxPending
    /\ zoomed' = ZoomAfterClose(zoomed)
    /\ modalClosing' = TRUE
    /\ modalActive' = FALSE
    /\ closeListeners' = closeListeners + 1
    /\ modalLog' = CloseRequested(modalLog)
    /\ UNCHANGED <<modalOpen, modalContent, previouslyFocusedElement,
                   scrollLockY, noScroll, bodyTop, scrollY, focus,
                   rafPending, focusTimers>>

\* the targets of the click delegation of the modal that close it
CloseTargets == {"backdrop", "close-modal", "view-in-store"}

\* click inside the shown dialog on the backdrop, the X button or the
\* "view in store" button
CloseClick(target) ==
    /\ modalOpen
    /\ event' = Ev("close", "none", "none", target)
    /\ CloseModal
    /\ ZoomReset
    /\ UNCHANGED <<cacheVars, pageVars>>

\* keydown of Escape, handleKeyPress
EscapeKey ==
    /\ event' = Ev("close", "none", "none", "escape")
    /\ IF modalActive
       THEN IF zoomed
            THEN /\ zoomed' = FALSE
                 /\ UNCHANGED <<modalOpen, modalActive, modalClosing,
                                modalContent, previouslyFocusedElement,
                                scrollLockY, noScroll, bodyTop, scrollY, focus,
                                closeListeners, rafPending, focusTimers,
                                modalLog>>
            ELSE CloseModal
       ELSE UNCHANGED modalVars
    /\ ZoomReset
    /\ UNCHANGED <<cacheVars, pageVars>>

\* click at p on the main image of the modal in a window of 768 px or more,
\* toggleImageZoom: the second click resets, the first zooms and places the
\* image with handleImageZoom
ToggleZoom(p) ==
    /\ modalOpen
    /\ p.window = "wide"
    /\ zoomed' = ~zoomed
    /\ zoomTransform' = IF zoomed THEN NoTransform ELSE HandleImageZoom(entryScript, p)
    /\ touchZoomState' = IF zoomed /\ entryScript # "main.js"
                         THEN TouchIdle ELSE touchZoomState
    /\ event' = Ev("toggleZoom", "none", "none", "")
    /\ UNCHANGED <<modalOpen, modalActive, modalClosing, modalContent,
                   previouslyFocusedElement, scrollLockY, noScroll, bodyTop,
                   scrollY, focus, closeListeners, rafPending, focusTimers,
                   modalLog>>
    /\ UNCHANGED <<cacheVars, pageVars, probe, categoryVars, adminVars,
                   categoryDelete, productForm, entryScript>>

\* the requestAnimationFrame callback of openModal
AnimationFrame ==
    /\ rafPending > 0
    /\ focusTimers < MaxPending
    /\ rafPending' = rafPending - 1
    /\ modalActive' = TRUE
    /\ focusTimers' = focusTimers + 1
    /\ event' = Ev("animationFrame", "none", "none", "")
    /\ UNCHANGED <<modalOpen, modalClosing, modalContent, zoomed,
                   previouslyFocusedElement, scrollLockY, noScroll, bodyTop,
                   scrollY, focus, closeListeners, modalLog>>
    /\ UNCHANGED <<cacheVars, pageVars, extraVars>>

\* the 100 ms timer of that callback
FocusTimerFire ==
    /\ focusTimers > 0
    /\ focusTimers' = focusTimers - 1
    /\ focus' = Focus(focus, Element("close-modal"), modalOpen)
    /\ event' = Ev("focusTimer", "none", "none", "")
    /\ UNCHANGED <<modalOpen, modalActive, modalClosing, modalContent, zoomed,
                   previouslyFocusedElement, scrollLockY, noScroll, bodyTop,
                   scrollY, closeListeners, rafPending, modalLog>>
    /\ UNCHANGED <<cacheVars, pageVars, extraVars>>

\* the focus once dialog.close() has run: an element of the dialog loses it
FocusAfterClose(current) ==
    IF current.name \in ModalElements THEN Element("body") ELSE current

\* a 'transitionend' event reaches the shown dialog: every listener that
\* closeModal registered runs, once
TransitionEnd ==
    /\ modalOpen
    /\ closeListeners > 0
    /\ closeListeners' = 0
    /\ modalClosing' = FALSE
    /\ modalOpen' = FALSE
    /\ noScroll' = FALSE
    /\ bodyTop' = Null
    /\ IF HasScrollLock(scrollLockY)
       THEN /\ scrollLockY' = Null
            /\ scrollY' = scrollLockY.value
       ELSE UNCHANGED <<scrollLockY, scrollY>>
    /\ IF previouslyFocusedElement # Null
       THEN /\ focus' = Focus(FocusAfterClose(focus), previouslyFocusedElement,
                              FALSE)
            /\ previouslyFocusedElement' = Null
       ELSE /\ focus' = FocusAfterClose(focus)
            /\ UNCHANGED previouslyFocusedElement
    /\ modalLog' = [modalLog EXCEPT !.stage =
                        IF @ = "closeRequested" THEN "restored" ELSE "closed"]
    /\ event' = Ev("transitionend", "none", "none", "")
    /\ UNCHANGED <<modalActive, modalContent, zoomed, rafPending, focusTimers>>
    /\ UNCHANGED <<cacheVars, pageVars, extraVars>>

\* the visitor scrolls the page, which the scroll lock and the modal dialog
\* prevent
Scroll(y) ==
    /\ ~modalOpen
    /\ ~noScroll
    /\ scrollY' = y
    /\ modalLog' = [modalLog EXCEPT !.stage =
                        IF @ = "restored" THEN "closed" ELSE @]
    /\ event' = Ev("scroll", "none", "none", "")
    /\ UNCHANGED <<modalOpen, modalActive, modalClosing, modalContent, zoomed,
                   previouslyFocusedElement, scrollLockY, noScroll, bodyTop,
                   focus, closeListeners, rafPending, focusTimers>>
    /\ UNCHANGED <<cacheVars, pageVars, extraVars>>

\* the visitor moves the focus to an element of the page
FocusElement(name) ==
    /\ ~modalOpen
    /\ focus' = Element(name)
    /\ modalLog' = [modalLog EXCEPT !.stage =
                        IF @ = "restored" THEN "closed" ELSE @]
    /\ event' = Ev("focus", "none", "none", "")
    /\ UNCHANGED <<modalOpen, modalActive, modalClosing, modalContent, zoomed,
                   previouslyFocusedElement, scrollLockY, noScroll, bodyTop,
                   scrollY, closeListeners, rafPending, focusTimers>>
    /\ UNCHANGED <<cacheVars, pageVars, extraVars>>

\* ids handed to callbacks.onOpenModal: those of the list, and one of no
\* product
ProductIds ==
    {JSString(products[i].id) : i \in DOMAIN products} \cup {JSString("none")}

\* the modal over the loaded page
NextModal ==
    \/ \E productId \in ProductIds : OpenModal(productId)
    \/ \E i \in DOMAIN container : ClickDetails(i)
    \/ \E target \in CloseTargets : CloseClick(target)
    \/ EscapeKey
    \/ \E p \in CentreClicks : ToggleZoom(p)
    \/ AnimationFrame
    \/ FocusTimerFire
    \/ TransitionEnd
    \/ \E y \in 0..MaxScroll : Scroll(y)
    \/ \E name \in PageElements : FocusElement(name)

SpecModal == InitLoaded /\ [][NextModal]_vars

\* ------------------------------------------------------------------------
\* Properties of loading and paging
\* ------------------------------------------------------------------------
\* C1: while a fetch is in flight a 'load more' trigger issues no query and
\* leaves the list, the cursor and hasMore unchanged; nothing is queued to
\* run when the fetch settles; at most one query is in flight at any time.
C1_SingleFlight ==
    /\ [](Len(inflight) <= 1)
    /\ [](isLoadingMore <=> inflight # << >>)
    /\ [][(isLoadingMore /\ event'.name = "loadMore")
            => UNCHANGED <<inflight, fetches, products, lastVisibleDoc,
                           hasMoreProducts>>]_vars
    /\ [][event'.name = "settle" => (inflight' = << >> /\ fetches' = fetches)]_vars

C1_Witness ==
    /\ event = Ev("loadMore", "none", "none", "ignored")
    /\ isLoadingMore
    /\ Len(inflight) = 1
    /\ hasMoreProducts

NoDuplicateIds(seq) ==
    \A i, j \in DOMAIN seq : i # j => seq[i].id # seq[j].id

\* C2: after any sequence of paginated fetches and append renders the
\* container never holds two cards for the same product id.
C2_NoDuplicateCards ==
    pagingOnly => NoDuplicateIds(ProductCards(container))

C8_AllExclusive ==
    /\ []("all" \in activeCats => activeCats = {"all"})
    /\ [][event'.name = "category" =>
            LET btn == event'.arg IN
            IF btn = "all"
            THEN activeCats' = (IF "all" \in activeCats THEN {} ELSE {"all"})
            ELSE /\ "all" \notin activeCats'
                 /\ (btn \in activeCats') = (btn \notin activeCats)
                 /\ \A c \in Range(CategoryButtons) \ {"all", btn} :
                        (c \in activeCats') = (c \in activeCats)]_vars

C8_Witness ==
    /\ activeCats = {"decor", "kitchen"}
    /\ event = Ev("category", "none", "none", "kitchen")

\* the cards the claim expects of loadProducts(products, filter)
MatchesFilter(q, filter) ==
    \/ filter = FilterAll
    \/ filter.kind = "string" /\ q.category = filter.value
    \/ filter.kind = "array" /\ \E i \in DOMAIN filter.items : filter.items[i] = q.category

ExpectedCards(prods, filter) ==
    Cards(SelectSeq(prods, LAMBDA q : MatchesFilter(q, filter)))

\* C9: once loadProducts(products, filter) has rendered, the container shows
\* one card for each product that the filter admits ('all', the category
\* equal to the slug, or the category among the slugs), in order, and
\* nothing else.
C9_RenderShowsFiltered ==
    rendered # Null => container = ExpectedCards(rendered.products, rendered.filter)

C9_Witness ==
    /\ rendered # Null
    /\ rendered.filter = FilterString("decor")
    /\ container = <<Card(MapDoc(SmallRemote[3]))>>
    /\ Len(rendered.products) = 3

\* C10: a search with the empty term leaves the products of the active
\* category selection: every product when no specific category is active,
\* else those whose category is active.
C10_EmptySearchRestores ==
    (rendered # Null /\ rendered.origin = "search") =>
        LET sel == rendered.active \ {"all"} IN
        container = Cards(SelectSeq(rendered.products,
                                    LAMBDA q : sel = {} \/ q.category \in sel))

C10_Witness ==
    /\ rendered # Null
    /\ rendered.origin = "search"
    /\ rendered.active = {"kitchen"}
    /\ container = <<Card(MapDoc(SmallRemote[2]))>>

\* ------------------------------------------------------------------------
\* Properties of the modal
\* ------------------------------------------------------------------------
\* C6: openModal(id) of an existing product from the closed modal, then
\* closeModal() and the completion of the close, leaves the page at the
\* offset y and the focus on the element f of the moment of opening, for
\* every y (0 included) and f; the scroll lock is released and the saved
\* offset and the saved element are cleared
C6_CloseRestores ==
    modalLog.stage = "restored" =>
        /\ ~modalOpen
        /\ scrollY = modalLog.y
        /\ focus = modalLog.f
        /\ ~noScroll
        /\ bodyTop = Null
        /\ scrollLockY = Null
        /\ previouslyFocusedElement = Null

\* a cycle that began at the top of the page with the search box focused has
\* completed
C6_Witness ==
    /\ modalLog.stage = "restored"
    /\ modalLog.y = 0
    /\ modalLog.f = Element("search-input")

\* the modal is in the state 'open'
ModalIsOpen == modalOpen /\ modalActive /\ ~modalClosing

\* C7 as stated: with the modal open, each of the four close actions moves
\* it to 'closing' with the zoom reset in the same action
C7_Original ==
    [][(event'.name = "close" /\ ModalIsOpen) =>
            (modalClosing' /\ ~modalActive' /\ ~zoomed')]_vars

\* C7: with the modal open, a click on the close button, on the backdrop or
\* on "view in store" moves it to 'closing' with the zoom reset in the same
\* action; Escape does the same when the image is not zoomed, and when it is
\* zoomed Escape resets the zoom and leaves the modal open
C7_CloseActions ==
    [][(event'.name = "close" /\ ModalIsOpen) =>
            IF event'.arg = "escape" /\ zoomed
            THEN ~zoomed' /\ modalOpen' /\ modalActive' /\ ~modalClosing'
            ELSE modalClosing' /\ ~modalActive' /\ ~zoomed'
                 /\ closeListeners' = closeListeners + 1]_vars

\* Escape was pressed on the open modal with the image zoomed
C7_Witness ==
    /\ event.name = "close"
    /\ event.arg = "escape"
    /\ ModalIsOpen
    /\ ~zoomed

\* ------------------------------------------------------------------------
\* loadProducts called again with the same filter
\* ------------------------------------------------------------------------
MaxCalls == 2

\* product lists handed to loadProducts
ReloadLists ==
    { << >>, MapDocs(QueryDocs(SmallRemote, Null)),
      SubSeq(MapDocs(QueryDocs(SmallRemote, Null)), 1, 1) }

\* what the container may hold when loadProducts is called
StartContainers ==
    { << >>, <<ErrorMessage>>, <<NoResultsMessage>>,
      Cards(MapDocs(QueryDocs(SmallRemote, Null))) }

\* a running page with some list and some content
InitReload ==
    /\ phase = "running"
    /\ remote = SmallRemote
    /\ firebaseReady = TRUE
    /\ products \in ReloadLists
    /\ lastVisibleDoc = Null
    /\ hasMoreProducts = FALSE
    /\ isLoadingMore = FALSE
    /\ inflight = << >>
    /\ fetches = 1
    /\ container \in StartContainers
    /\ timers = << >>
    /\ activeCats = {"all"}
    /\ searchValue = << >>
    /\ event = Ev("settle", "ok", "resolved", "init")
    /\ rendered = Null
    /\ pagingOnly = FALSE
    /\ CacheIdle
    /\ ModalConstructed
    /\ ExtraIdle

\* loadProducts(dom, state.products, filter), the first call or a repetition
\* of it with the same filter
Reload(filter) ==
    /\ IF probe = Null THEN TRUE
       ELSE probe.filter = filter /\ probe.calls < MaxCalls
    /\ LET r == LoadProducts(container, timers, products, filter, FALSE,
                             "reload", activeCats)
       IN /\ container' = r.container
          /\ timers' = r.timers
          /\ rendered' = r.rendered
    /\ probe' = IF probe = Null
                THEN [kind |-> "probe", filter |-> filter, start |-> container,
                      calls |-> 1, overlap |-> FALSE]
                ELSE [probe EXCEPT !.calls = @ + 1,
                                   !.overlap = @ \/ timers # << >>]
    /\ event' = Ev("reload", "none", "none", "")
    /\ UNCHANGED <<phase, firebaseReady, remote, products, lastVisibleDoc,
                   hasMoreProducts, isLoadingMore, inflight, fetches, activeCats,
                   searchValue, pagingOnly>>
    /\ UNCHANGED <<cacheVars, modalVars, categoryVars, adminVars, otherVars>>

NextReload ==
    \/ \E filter \in FilterInputs : Reload(filter)
    \/ \E i \in DOMAIN timers : TimerFire(i)

SpecReload == InitReload /\ [][NextReload]_vars

\* one loadProducts call and, if it set one, its timer: the container left
LoadProductsSettled(cont, prods, filter) ==
    LET r == LoadProducts(cont, << >>, prods, filter, FALSE, "once", {})
    IN IF r.timers = << >> THEN r.container
       ELSE RenderProducts(r.container, r.timers[1].products,
                           r.timers[1].filter, FALSE)

SearchTerms ==
    { << >>, <<"m", "u">>, <<"M", "U">>, <<"V", "a">>, <<"x">> }

\* callbacks.onSearch(term): filterProductsBySearch(dom, state.products, term)
OnSearch(term) ==
    /\ phase = "running"
    /\ LET r == LoadProducts(container, timers, products,
                             SearchEmptyFilter(activeCats), FALSE, "search",
                             activeCats)
       IN IF term = << >>
          THEN /\ Len(r.timers) <= MaxTimers
               /\ container' = r.container
               /\ timers' = r.timers
               /\ rendered' = r.rendered
          ELSE /\ Len(timers) < MaxTimers
               /\ container' = << >>
               /\ timers' = Append(timers, [kind |-> "search",
                                            delay |-> SEARCH_RENDER_DELAY,
                                            products |-> SearchMatches(products, term)])
               /\ rendered' = Null
    /\ event' = Ev("onSearch", "none", "none", term)
    /\ pagingOnly' = FALSE
    /\ UNCHANGED <<phase, firebaseReady, remote, products, lastVisibleDoc,
                   hasMoreProducts, isLoadingMore, inflight, fetches, activeCats,
                   searchValue>>
    /\ UNCHANGED <<cacheVars, modalVars, extraVars>>

\* the category bar and the search, typed or handed to the hook
NextSearch ==
    \/ \E btn \in Range(CategoryButtons) : CategoryClick(btn)
    \/ \E text \in SearchInputs : TypeSearch(text)
    \/ \E i \in DOMAIN timers : SearchFire(i)
    \/ \E i \in DOMAIN timers : TimerFire(i)
    \/ \E term \in SearchTerms : OnSearch(term)

SpecSearch == InitLoaded /\ [][NextSearch]_vars

C13_NoResultsShown ==
    /\ (rendered # Null /\ FilterByCategory(rendered.products, rendered.filter) = << >>)
           => NoResultsMessage \in Range(container)
    /\ (event.name = "timer" /\ event.arg = "search"
        /\ ProductCards(container) = << >>)
           => NoResultsMessage \in Range(container)

\* C14: a click on 'clear filters' leaves, in that one step, no category
\* button active and the search text empty
C14_ClearAtomic ==
    [][event'.name = "clear" => (activeCats' = {} /\ searchValue' = << >>)]_vars

\* 'clear filters' was clicked while a typed search was still waiting for
\* its debounce
C14_Witness ==
    /\ event.name = "clear"
    /\ activeCats = {}
    /\ searchValue = << >>
    /\ timers # << >>
    /\ timers[1].kind = "debounce"

\* ------------------------------------------------------------------------
\* app/categories.js and the start of ArtesanatoShop.initialize
\* ------------------------------------------------------------------------
\* documents of the categories collection: well formed, and one whose name
\* is a number and that has no slug, on which name?.toLowerCase() throws
GoodCategoryDocs ==
    << [id |-> "c1", name |-> JSString(<<"D", "e", "c", "o", "r">>),
        slug |-> "decor"],
       [id |-> "c2", name |-> JSString(<<"P", "o", "t", "s">>), slug |-> ""],
       [id |-> "c4", name |-> JSString(<< >>), slug |-> ""] >>

BadCategoryDocs == << [id |-> "c3", name |-> Number(7), slug |-> ""] >>

\* what becomes of db.collection('categories').orderBy('name').get()
CategoryQueryResults ==
    { [kind |-> "rejected"],
      [kind |-> "snapshot", docs |-> GoodCategoryDocs],
      [kind |-> "snapshot", docs |-> BadCategoryDocs],
      [kind |-> "snapshot", docs |-> << >>] }

\* the document mapping of loadCategories throws on this document
CategoryMapThrows(doc) == doc.slug = "" /\ doc.name.kind # "string"

\* the string that has these characters, for the names of the categories
Text(chars) ==
    CASE chars = <<"D", "e", "c", "o", "r">> -> "Decor"
      [] chars = <<"d", "e", "c", "o", "r">> -> "decor"
      [] chars = <<"P", "o", "t", "s">> -> "Pots"
      [] chars = <<"p", "o", "t", "s">> -> "pots"
      [] chars = <<"m", "u", "g", "s">> -> "mugs"
      [] OTHER -> "?"

\* slug: data.slug || data.name?.toLowerCase() || 'outros'
CategorySlug(doc) ==
    IF doc.slug # "" THEN doc.slug
    ELSE IF doc.name.value = << >> THEN "outros"
    ELSE Text(ToLowerCase(doc.name.value))

\* the catch block of loadCategories rethrowing
LoadCategoriesCatchRethrow(failure) == [kind |-> "rejected", failure |-> failure]

\* catch (error) { debugError(...); return []; }
LoadCategoriesCatch(failure) ==
    [kind |-> "resolved", value |-> << >>, failure |-> failure]

\* loadCategories(dom): how its promise settles for a query result, or for a
\* missing backend
LoadCategories(configured, result) ==
    IF ~configured
    THEN [kind |-> "resolved", value |-> << >>, failure |-> "notConfigured"]
    ELSE IF result.kind = "rejected" THEN LoadCategoriesCatch("network")
    ELSE IF \E i \in DOMAIN result.docs : CategoryMapThrows(result.docs[i])
    THEN LoadCategoriesCatch("badData")
    ELSE [kind |-> "resolved",
          value |-> [i \in DOMAIN result.docs |-> CategorySlug(result.docs[i])],
          failure |-> "none"]

\* initialize() on a page with a categories container, up to the await of
\* loadCategories
InitializeCategories ==
    /\ phase = "constructed"
    /\ phase' = "categories"
    /\ event' = Ev("loadCategories", IF firebaseReady THEN "issued" ELSE "none",
                   "pending", "")
    /\ UNCHANGED <<firebaseReady, remote, products, lastVisibleDoc,
                   hasMoreProducts, isLoadingMore, inflight, fetches, container,
                   timers, activeCats, searchValue, rendered, pagingOnly>>
    /\ UNCHANGED <<cacheVars, modalVars, extraVars>>

\* loadCategories settles: the rest of loadCategoriesData, then the 'all'
\* button, the listeners and loadProductsData up to the await of its query
CategoriesSettle(result) ==
    /\ phase = "categories"
    /\ LET settled == LoadCategories(firebaseReady, result)
       IN /\ categoriesRet' = settled
          /\ categoryButtons' = IF settled.kind = "resolved" /\ Len(settled.value) > 0
                                THEN settled.value
                                ELSE categoryButtons
    /\ phase' = "running"
    /\ activeCats' = activeCats \cup {"all"}
    /\ IF firebaseReady
       THEN FetchIssue("initialize", "init", FALSE)
       ELSE FetchNotConfigured("initialize")
    /\ UNCHANGED <<firebaseReady, remote, searchValue, pagingOnly>>
    /\ UNCHANGED <<cacheVars, modalVars, probe, adminVars, otherVars>>

\* initialization with and without a categories container, then paging
NextInit ==
    \/ InitializeCategories
    \/ \E result \in CategoryQueryResults : CategoriesSettle(result)
    \/ AppInitialize
    \/ LoadMore
    \/ FetchSucceeds
    \/ FetchFails
    \/ \E btn \in Range(CategoryButtons) : CategoryClick(btn)
    \/ \E i \in DOMAIN timers : TimerFire(i)

SpecInit == Init /\ [][NextInit]_vars

\* the category query failed
CategoriesFailed == categoriesRet # Null /\ categoriesRet.failure # "none"

\* C15: when the category query fails (backend missing, network error, bad
\* data) loadCategories resolves to the empty list, in the same step
\* initialization goes on to call fetchProducts, and when that query
\* succeeds the products are displayed
C15_CategoryFailureHarmless ==
    /\ [][(phase = "categories" /\ phase' # "categories") =>
            /\ CategoriesFailed' =>
                   (categoriesRet'.kind = "resolved" /\ categoriesRet'.value = << >>)
            /\ phase' = "running"
            /\ event'.name = "initialize"
            /\ event'.query \in {"issued", "failed"}]_vars
    /\ []((CategoriesFailed /\ event = Ev("settle", "ok", "resolved", "init"))
              => container = Cards(products))

\* the category query failed and the products of the first page are shown
C15_Witness ==
    /\ CategoriesFailed
    /\ categoriesRet.failure = "badData"
    /\ event = Ev("settle", "ok", "resolved", "init")
    /\ Len(ProductCards(container)) > 0

\* C16: after every successful full product fetch the cache entry holds the
\* list just fetched, with the current version and the time of the write
C16_CacheHoldsFetched ==
    (event.name = "settle" /\ event.query = "ok" /\ event.arg \in {"init", "refresh"})
        => storage = JSONStringify([data |-> Array(products),
                                    version |-> cacheVersion,
                                    timestamp |-> now])

\* ------------------------------------------------------------------------
\* admin/js/categories.js: bulk actions on the selected products
\* ------------------------------------------------------------------------
MaxBulkOps == 2

\* what the bulk actions leave alone: the storefront and the other forms of
\* the back office
storefrontVars == <<cacheVars, catalogVars, modalVars, probe, categoryVars, otherVars>>

AdminCategories == {"decor", "kitchen"}

BulkActions == {"delete", "activate", "deactivate", "change-category", "change-price"}

\* ids of the documents that exist
ExistingIds(docs) == {id \in AdminIds : docs[id] # Null}

\* the back office with every product listed and nothing selected
InitAdmin ==
    /\ CatalogConstructed
    /\ ModalConstructed
    /\ CacheIdle
    /\ remote = SmallRemote
    /\ firebaseReady = TRUE
    /\ probe = Null
    /\ categoriesRet = Null
    /\ categoryButtons = << >>
    /\ selectedProducts = {}
    /\ productDocs = [id \in AdminIds |-> [category |-> "decor", active |-> TRUE]]
    /\ categoryDocs = AdminCategories
    /\ adminList = AdminIds
    /\ bulkOp = Null
    /\ batches = << >>
    /\ adminLog = [name |-> "none"]
    /\ OtherIdle

\* what a handler that has run its course leaves in the log
BulkLog(outcome, op) ==
    [name |-> "bulk", outcome |-> outcome, action |-> op.action, mode |-> op.mode,
     ids |-> op.ids, existed |-> op.existed, targets |-> op.targets,
     selBefore |-> selectedProducts, nBefore |-> Len(batches)]

BulkOp(action, mode, stage, ids, targets, existed, category) ==
    [kind |-> "bulk", action |-> action, mode |-> mode, stage |-> stage, ids |-> ids,
     targets |-> targets, existed |-> existed, category |-> category]

\* handleProductSelection: the checkbox of a row is toggled
ToggleProduct(id) ==
    /\ id \in adminList
    /\ selectedProducts' = IF id \in selectedProducts
                           THEN selectedProducts \ {id}
                           ELSE selectedProducts \cup {id}
    /\ adminLog' = [name |-> "select"]
    /\ UNCHANGED <<productDocs, categoryDocs, adminList, bulkOp, batches>>
    /\ UNCHANGED storefrontVars

\* a product document is deleted by another session of the back office
ExternalDelete(id) ==
    /\ productDocs[id] # Null
    /\ productDocs' = [productDocs EXCEPT ![id] = Null]
    /\ adminLog' = [name |-> "external"]
    /\ UNCHANGED <<selectedProducts, categoryDocs, adminList, bulkOp, batches>>
    /\ UNCHANGED storefrontVars

\* handleBulkAction(action) up to the first await of its operation; answer
\* is what the visitor enters in confirm() and prompt().  One operation is
\* followed at a time
HandleBulkAction(action, answer) ==
    /\ bulkOp = Null
    /\ Len(batches) < MaxBulkOps
    /\ LET ids == selectedProducts
           op(mode, stage, targets) ==
               BulkOp(action, mode, stage, ids, targets, {}, "")
       IN IF ids = {}
          THEN /\ adminLog' = [name |-> "bulk", outcome |-> "nothing"]
               /\ UNCHANGED bulkOp
          ELSE CASE action = "delete" /\ answer = "cancel" ->
                      /\ adminLog' = BulkLog("cancelled", op("", "", {}))
                      /\ UNCHANGED bulkOp
                 [] action = "delete" /\ answer # "cancel" ->
                      /\ bulkOp' = op("", "committing", ids)
                      /\ adminLog' = [name |-> "bulk", outcome |-> "pending"]
                 [] action \in {"activate", "deactivate"} ->
                      /\ bulkOp' = op("", "committing", ids)
                      /\ adminLog' = [name |-> "bulk", outcome |-> "pending"]
                 [] action = "change-category" ->
                      /\ bulkOp' = op("", "reading", {})
                      /\ adminLog' = [name |-> "bulk", outcome |-> "pending"]
                 [] action = "change-price" /\ answer = "fixed" ->
                      /\ bulkOp' = op("fixed", "committing", ids)
                      /\ adminLog' = [name |-> "bulk", outcome |-> "pending"]
                 [] action = "change-price" /\ answer = "percent" ->
                      /\ bulkOp' = op("percent", "reading", {})
                      /\ adminLog' = [name |-> "bulk", outcome |-> "pending"]
                 [] OTHER ->
                      /\ adminLog' = BulkLog("cancelled", op("", "", {}))
                      /\ UNCHANGED bulkOp
    /\ UNCHANGED <<selectedProducts, productDocs, categoryDocs, adminList, batches>>
    /\ UNCHANGED storefrontVars

\* the read a bulk operation awaits settles: the categories for 'change
\* category' (followed by its prompt), the selected documents for a price
\* change in percent
BulkReadDone(result, answer, cat) ==
    /\ bulkOp # Null
    /\ bulkOp.stage = "reading"
    /\ IF result = "rejected"
       THEN /\ adminLog' = BulkLog("failed", bulkOp)
            /\ bulkOp' = Null
       ELSE IF bulkOp.action = "change-category"
       THEN IF categoryDocs = {} \/ answer = "cancel" \/ cat \notin categoryDocs
            THEN /\ adminLog' = BulkLog("cancelled", bulkOp)
                 /\ bulkOp' = Null
            ELSE /\ bulkOp' = [bulkOp EXCEPT !.stage = "committing",
                                             !.targets = bulkOp.ids,
                                             !.category = cat]
                 /\ adminLog' = [name |-> "bulk", outcome |-> "pending"]
       ELSE /\ bulkOp' = [bulkOp EXCEPT
                              !.stage = "committing",
                              !.existed = ExistingIds(productDocs),
                              !.targets = bulkOp.ids \cap ExistingIds(productDocs)]
            /\ adminLog' = [name |-> "bulk", outcome |-> "pending"]
    /\ UNCHANGED <<selectedProducts, productDocs, categoryDocs, adminList, batches>>
    /\ UNCHANGED storefrontVars


\* what the batch writes into the documents once it is committed
ApplyBatch(docs, op) ==
    [id \in AdminIds |->
        IF id \notin op.targets \/ docs[id] = Null THEN docs[id]
        ELSE CASE op.action = "delete" -> Null
               [] op.action = "activate" -> [docs[id] EXCEPT !.active = TRUE]
               [] op.action = "deactivate" -> [docs[id] EXCEPT !.active = FALSE]
               [] op.action = "change-category" ->
                      [docs[id] EXCEPT !.category = op.category]
               [] OTHER -> docs[id]]

\* batch.update of a document that does not exist fails the whole commit;
\* batch.delete does not mind
CommitCanSucceed(docs, op) ==
    op.action = "delete" \/ op.targets \subseteq ExistingIds(docs)

ClearSelectionKeep(selected) == selected

\* clearSelection()
ClearSelection(selected) == {}

\* batch.commit() settles; on success the handler goes on to clearSelection()
\* and loadProducts()
BulkCommit(success) ==
    /\ bulkOp # Null
    /\ bulkOp.stage = "committing"
    /\ success => CommitCanSucceed(productDocs, bulkOp)
    /\ IF success
       THEN /\ productDocs' = ApplyBatch(productDocs, bulkOp)
            /\ batches' = Append(batches, [action |-> bulkOp.action,
                                           targets |-> bulkOp.targets])
            /\ selectedProducts' = ClearSelection(selectedProducts)
            /\ adminList' = ExistingIds(productDocs')
            /\ adminLog' = BulkLog("completed", bulkOp)
       ELSE /\ adminLog' = BulkLog("failed", bulkOp)
            /\ UNCHANGED <<productDocs, batches, selectedProducts, adminList>>
    /\ bulkOp' = Null
    /\ UNCHANGED categoryDocs
    /\ UNCHANGED storefrontVars

BulkAnswers == {"ok", "cancel", "fixed", "percent"}

NextBulk ==
    \/ \E id \in AdminIds : ToggleProduct(id)
    \/ \E id \in AdminIds : ExternalDelete(id)
    \/ \E action \in BulkActions, answer \in BulkAnswers : HandleBulkAction(action, answer)
    \/ \E result \in {"ok", "rejected"}, answer \in {"ok", "cancel"}, cat \in AdminCategories :
           BulkReadDone(result, answer, cat)
    \/ \E success \in BOOLEAN : BulkCommit(success)

SpecBulk == InitAdmin /\ [][NextBulk]_vars

\* a bulk handler has just returned with this outcome
BulkEnded(outcome) == adminLog.name = "bulk" /\ adminLog.outcome = outcome

\* C17 as stated: a bulk operation on a non-empty selection S that runs to
\* completion issues exactly one batched write whose targets are exactly S and
\* leaves the selection empty; one that is cancelled or whose commit fails
\* leaves the selection as it was
C17_Original ==
    /\ BulkEnded("completed") =>
           /\ Len(batches) = adminLog.nBefore + 1
           /\ batches[Len(batches)].targets = adminLog.ids
           /\ selectedProducts = {}
    /\ (BulkEnded("cancelled") \/ BulkEnded("failed")) =>
           /\ selectedProducts = adminLog.selBefore
           /\ Len(batches) = adminLog.nBefore

\* C17: as above, except that a price change in percent targets the products
\* of S whose documents exist when the operation reads them
C17_BulkTargets ==
    /\ BulkEnded("completed") =>
           /\ adminLog.ids # {}
           /\ Len(batches) = adminLog.nBefore + 1
           /\ batches[Len(batches)].targets =
                  IF adminLog.action = "change-price" /\ adminLog.mode = "percent"
                  THEN adminLog.ids \cap adminLog.existed
                  ELSE adminLog.ids
           /\ selectedProducts = {}
    /\ (BulkEnded("cancelled") \/ BulkEnded("failed")) =>
           /\ selectedProducts = adminLog.selBefore
           /\ Len(batches) = adminLog.nBefore

C17_Witness ==
    /\ BulkEnded("completed")
    /\ adminLog.action = "change-price"
    /\ adminLog.mode = "percent"
    /\ adminLog.selBefore = AdminIds
    /\ batches[Len(batches)].targets # adminLog.ids
    /\ batches[Len(batches)].targets # {}
    /\ selectedProducts = {}


\* ------------------------------------------------------------------------
\* admin/js/categories.js: deleteCategory
\* ------------------------------------------------------------------------
\* what the bulk selection and the storefront have to do with deleteCategory:
\* nothing
deleteFrame == <<cacheVars, catalogVars, modalVars, probe, categoryVars,
                 selectedProducts, adminList, bulkOp, batches, productForm,
                 zoomTransform, touchZoomState, entryScript>>

\* ids of the products whose category field is cat
ProductsOfCategory(docs, cat) ==
    {id \in AdminIds : docs[id] # Null /\ docs[id].category = cat}

DeleteLog(outcome, call) ==
    [name |-> "deleteCategory", outcome |-> outcome, cat |-> call.cat,
     confirmed |-> call.confirmed]

\* the delete button of a row of the category table: deleteCategory up to its
\* first await.  One call is followed at a time
DeleteCategory(cat) ==
    /\ categoryDelete = Null
    /\ categoryDelete' = [cat |-> cat, stage |-> "getting", confirmed |-> FALSE]
    /\ adminLog' = [name |-> "deleteCategory", outcome |-> "pending"]
    /\ UNCHANGED <<productDocs, categoryDocs>>
    /\ UNCHANGED deleteFrame

\* the read of the category document settles
DeleteGetSettles(ok) ==
    /\ categoryDelete # Null
    /\ categoryDelete.stage = "getting"
    /\ IF ~ok
       THEN /\ adminLog' = DeleteLog("failed", categoryDelete)
            /\ categoryDelete' = Null
       ELSE IF categoryDelete.cat \notin categoryDocs
       THEN /\ adminLog' = DeleteLog("notfound", categoryDelete)
            /\ categoryDelete' = Null
       ELSE /\ categoryDelete' = [categoryDelete EXCEPT !.stage = "checking"]
            /\ adminLog' = [name |-> "deleteCategory", outcome |-> "pending"]
    /\ UNCHANGED <<productDocs, categoryDocs>>
    /\ UNCHANGED deleteFrame

\* the query where('category', '==', slug).limit(1) settles; with no product
\* found the handler asks for confirmation and starts the delete
DeleteCheckSettles(ok, confirmed) ==
    /\ categoryDelete # Null
    /\ categoryDelete.stage = "checking"
    /\ IF ~ok
       THEN /\ adminLog' = DeleteLog("failed", categoryDelete)
            /\ categoryDelete' = Null
       ELSE IF ProductsOfCategory(productDocs, categoryDelete.cat) # {}
       THEN /\ categoryDelete' = [categoryDelete EXCEPT !.stage = "counting"]
            /\ adminLog' = [name |-> "deleteCategory", outcome |-> "pending"]
       ELSE IF ~confirmed
       THEN /\ adminLog' = DeleteLog("cancelled", categoryDelete)
            /\ categoryDelete' = Null
       ELSE /\ categoryDelete' = [categoryDelete EXCEPT !.stage = "deleting",
                                                        !.confirmed = TRUE]
            /\ adminLog' = [name |-> "deleteCategory", outcome |-> "pending"]
    /\ UNCHANGED <<productDocs, categoryDocs>>
    /\ UNCHANGED deleteFrame

\* the query that lists the products of the category settles: alert, return
DeleteCountSettles(ok) ==
    /\ categoryDelete # Null
    /\ categoryDelete.stage = "counting"
    /\ adminLog' = DeleteLog(IF ok THEN "blocked" ELSE "failed", categoryDelete)
    /\ categoryDelete' = Null
    /\ UNCHANGED <<productDocs, categoryDocs>>
    /\ UNCHANGED deleteFrame

\* doc(categoryId).delete() settles
DeleteSettles(ok) ==
    /\ categoryDelete # Null
    /\ categoryDelete.stage = "deleting"
    /\ IF ok
       THEN /\ categoryDocs' = categoryDocs \ {categoryDelete.cat}
            /\ adminLog' = DeleteLog("deleted", categoryDelete)
       ELSE /\ adminLog' = DeleteLog("failed", categoryDelete)
            /\ UNCHANGED categoryDocs
    /\ categoryDelete' = Null
    /\ UNCHANGED productDocs
    /\ UNCHANGED deleteFrame

\* a product is saved with another category, in the product form of this or
\* of another session
AssignCategory(id, cat) ==
    /\ productDocs[id] # Null
    /\ productDocs[id].category # cat
    /\ productDocs' = [productDocs EXCEPT ![id].category = cat]
    /\ adminLog' = [name |-> "external"]
    /\ UNCHANGED <<categoryDocs, categoryDelete>>
    /\ UNCHANGED deleteFrame

NextCategoryDelete ==
    \/ \E cat \in AdminCategories : DeleteCategory(cat)
    \/ \E ok \in BOOLEAN : DeleteGetSettles(ok)
    \/ \E ok \in BOOLEAN, confirmed \in BOOLEAN : DeleteCheckSettles(ok, confirmed)
    \/ \E ok \in BOOLEAN : DeleteCountSettles(ok)
    \/ \E ok \in BOOLEAN : DeleteSettles(ok)
    \/ \E id \in AdminIds, cat \in AdminCategories : AssignCategory(id, cat)
    \/ \E id \in AdminIds : ExternalDelete(id)

SpecCategoryDelete == InitAdmin /\ [][NextCategoryDelete]_vars

\* C18: a step that removes a category finds no product referring to it, was
\* confirmed by the user, and leaves every product as it is
C18_DeleteSafe ==
    [][\A cat \in AdminCategories :
           (cat \in categoryDocs /\ cat \notin categoryDocs') =>
               /\ ProductsOfCategory(productDocs, cat) = {}
               /\ categoryDelete # Null
               /\ categoryDelete.confirmed
               /\ productDocs' = productDocs]_vars


\* ------------------------------------------------------------------------
\* admin/js/products.js: the product form and its validation
\* ------------------------------------------------------------------------
NameMinLength == 3
NameMaxLength == 100
CategoryMinLength == 2
CategoryMaxLength == 50

\* the fields of VALIDATION_RULES.product that have a required value, in the
\* order of the rules; description, link and images are left empty and the
\* 'active' box is a boolean, all of which validate
FormFields == <<"name", "price", "category">>

\* the id of the input the submit handler reads a field from
InputOf(field) ==
    CASE field = "name" -> "product-name"
      [] field = "price" -> "product-price"
      [] field = "category" -> "product-category"

\* the inputs of the form in the order the handler reads them
FormInputs == <<"product-name", "product-category", "product-price">>

\* document.getElementById on the page of the form
GetElementById(id) ==
    IF id \in Range(FormInputs) THEN Element(id) ELSE Null

\* characters of the model's alphabet matched by /^[a-zA-ZÀ-ÿ0-9\s\-_.()]+$/
NamePatternChars ==
    {"P", "o", "t", "d", "e", "c", "r", "k", "i", "h", "n", " ", "-", "_", ".", "(", ")"}

\* the same for /^[a-zA-ZÀ-ÿ0-9\s\-_]+$/
CategoryPatternChars == NamePatternChars \ {".", "(", ")"}

\* validateString; sanitizeString on this alphabet is trim().  TRUE: valid
ValidateString(value, required, minLength, maxLength, chars, sanitize) ==
    IF Trim(value) = << >> THEN ~required
    ELSE LET sanitized == IF sanitize THEN Trim(value) ELSE value
         IN /\ Len(sanitized) >= minLength
            /\ Len(sanitized) <= maxLength
            /\ \A i \in 1..Len(sanitized) : sanitized[i] \in chars

\* validateNumber on Number(input.value) for whole numbers, for which
\* num < 0.01 is num <= 0; the maximum is out of the model's reach
ValidateNumber(value) ==
    /\ value.kind = "number"
    /\ value.value > 0

\* the characters of the values of the options of the category select
OptionChars(option) ==
    CASE option = "decor" -> <<"d", "e", "c", "o", "r">>
      [] option = "kitchen" -> <<"k", "i", "t", "c", "h", "e", "n">>
      [] OTHER -> << >>

\* validateProduct(productData).errors: the fields that have an error
ValidateProduct(data) ==
    {f \in Range(FormFields) :
        CASE f = "name" ->
                 ~ValidateString(data.name, TRUE, NameMinLength, NameMaxLength,
                                 NamePatternChars, TRUE)
          [] f = "price" -> ~ValidateNumber(data.price)
          [] f = "category" ->
                 ~ValidateString(OptionChars(data.category), TRUE, CategoryMinLength,
                                 CategoryMaxLength, CategoryPatternChars, FALSE)}

\* showValidationErrors(errors): showFieldError for every key of errors, which
\* marks the element that has the key as its id, if there is one
ShowValidationErrors(errors) ==
    {GetElementById(f).name : f \in {g \in errors : GetElementById(g) # Null}}

\* document.querySelector('.input-error'): the first marked input, or Null
FirstError(marked) ==
    IF \E i \in DOMAIN FormInputs : FormInputs[i] \in marked
    THEN Element(FormInputs[CHOOSE i \in DOMAIN FormInputs :
                     /\ FormInputs[i] \in marked
                     /\ \A j \in 1..(i - 1) : FormInputs[j] \notin marked])
    ELSE Null

FormNames == {<< >>, <<"P", "o">>, <<"P", "o", "t">>, <<"P", "#", "t">>}
FormPrices == {Number(0), Number(5), NaN}
FormCategories == {"", "decor"}


\* what the product form leaves alone
formFrame == <<cacheVars, catalogVars, modalVars, probe, categoryVars,
               selectedProducts, categoryDocs, bulkOp, batches, categoryDelete,
               zoomTransform, touchZoomState, entryScript>>

ProductId(id) == [kind |-> "id", value |-> id]

\* openModal(): the form for a new product
OpenForm ==
    /\ productForm.pending = Null
    /\ productForm' = [productForm EXCEPT !.currentProductId = Null, !.open = TRUE]
    /\ adminLog' = [name |-> "openModal"]
    /\ UNCHANGED <<productDocs, adminList>>
    /\ UNCHANGED formFrame

\* editProduct(productId) from the row of a listed product
EditProduct(id) ==
    /\ productForm.pending = Null
    /\ id \in adminList
    /\ productForm' = [productForm EXCEPT !.currentProductId = ProductId(id),
                                          !.open = TRUE]
    /\ adminLog' = [name |-> "editProduct"]
    /\ UNCHANGED <<productDocs, adminList>>
    /\ UNCHANGED formFrame

\* the submit handler of the form up to the write it awaits; the button is
\* disabled while a submit is pending.  upload is how the upload of newly
\* chosen images went, if there were any
SubmitForm(name, price, category, upload) ==
    /\ productForm.open
    /\ productForm.pending = Null
    /\ LET data == [name |-> Trim(name), price |-> price, category |-> category]
           invalid == ValidateProduct(data)
           marked == ShowValidationErrors(invalid)
           firstError == FirstError(marked)
       IN IF upload = "failed"
          THEN /\ productForm' = [productForm EXCEPT !.errors = {}]
               /\ adminLog' = [name |-> "submit", outcome |-> "upload",
                               invalid |-> {}, docsBefore |-> productDocs]
          ELSE IF invalid # {}
          THEN /\ productForm' =
                      [productForm EXCEPT
                           !.errors = marked,
                           !.focus = IF firstError # Null THEN firstError.name ELSE @]
               /\ adminLog' = [name |-> "submit", outcome |-> "invalid",
                               invalid |-> invalid, docsBefore |-> productDocs]
          ELSE /\ productForm' = [productForm EXCEPT !.errors = {}, !.pending = data]
               /\ adminLog' = [name |-> "submit", outcome |-> "pending",
                               invalid |-> {}, docsBefore |-> productDocs]
    /\ UNCHANGED <<productDocs, adminList>>
    /\ UNCHANGED formFrame

\* the ids no product document has
FreeIds(docs) == AdminIds \ ExistingIds(docs)

\* update(productData) or add(productData) settles; on success closeModal()
\* and loadProducts().  The model's documents keep category and active
SaveSettles(ok) ==
    /\ productForm.pending # Null
    /\ LET current == productForm.currentProductId
           doc == [category |-> productForm.pending.category, active |-> TRUE]
       IN IF ok
          THEN /\ IF current # Null
                  THEN /\ productDocs[current.value] # Null
                       /\ productDocs' = [productDocs EXCEPT ![current.value] = doc]
                  ELSE /\ FreeIds(productDocs) # {}
                       /\ productDocs' =
                              [productDocs EXCEPT
                                   ![CHOOSE id \in FreeIds(productDocs) : TRUE] = doc]
               /\ productForm' = [productForm EXCEPT !.pending = Null, !.open = FALSE,
                                                     !.currentProductId = Null]
               /\ adminList' = ExistingIds(productDocs')
               /\ adminLog' = [name |-> "save", outcome |-> "saved"]
          ELSE /\ productForm' = [productForm EXCEPT !.pending = Null]
               /\ adminLog' = [name |-> "save", outcome |-> "failed"]
               /\ UNCHANGED <<productDocs, adminList>>
    /\ UNCHANGED formFrame

NextForm ==
    \/ OpenForm
    \/ \E id \in AdminIds : EditProduct(id)
    \/ \E name \in FormNames, price \in FormPrices, category \in FormCategories,
          upload \in {"none", "ok", "failed"} : SubmitForm(name, price, category, upload)
    \/ \E ok \in BOOLEAN : SaveSettles(ok)
    \/ \E id \in AdminIds : ExternalDelete(id)

SpecForm == InitAdmin /\ [][NextForm]_vars

\* the first input of the form, in the order of the page, whose field is in
\* the set
FirstInputOf(fields) ==
    FormInputs[CHOOSE i \in DOMAIN FormInputs :
                   /\ FormInputs[i] \in {InputOf(f) : f \in fields}
                   /\ \A j \in 1..(i - 1) : FormInputs[j] \notin {InputOf(f) : f \in fields}]

\* C19: when validateProduct has reported an invalid field, no product
\* document was written and none is about to be, every offending input
\* carries an error message, and the first of them has the focus
C19_InvalidBlocked ==
    (adminLog.name = "submit" /\ adminLog.outcome = "invalid") =>
        /\ productForm.pending = Null
        /\ productDocs = adminLog.docsBefore
        /\ \A f \in adminLog.invalid : InputOf(f) \in productForm.errors
        /\ productForm.focus = FirstInputOf(adminLog.invalid)


\* ------------------------------------------------------------------------
\* The zoom of the image of the modal
\* ------------------------------------------------------------------------
ZoomRects == {[width |-> 2, height |-> 2], [width |-> 4, height |-> 2]}

\* pointers inside a container, with the container and the kind of window
\* (under 600 px wide, or 768 px and more)
ZoomPointers ==
    {[x |-> x, y |-> y, width |-> r.width, height |-> r.height, window |-> w] :
        x \in 0..4, y \in 0..2, r \in ZoomRects, w \in {"narrow", "wide"}}

PointersInside == {p \in ZoomPointers : p.x <= p.width /\ p.y <= p.height}

\* two-finger distance over the initial distance, in tenths
PinchRatios == {5, 11, 20, 40}

EntryScripts == {"main-modular.js", "main.js"}

\* what the zoom handlers leave alone
zoomFrame == <<probe, categoryVars, adminVars, categoryDelete, productForm, entryScript>>

modalFrame == <<modalOpen, modalActive, modalClosing, modalContent,
                previouslyFocusedElement, scrollLockY, noScroll, bodyTop, scrollY,
                focus, closeListeners, rafPending, focusTimers, modalLog>>

\* mousemove over the modal while the container is 'zoomed'
MouseMove(p) ==
    /\ modalOpen
    /\ zoomed
    /\ zoomTransform' = HandleImageZoom(entryScript, p)
    /\ event' = Ev("imageZoom", "none", "none", "")
    /\ UNCHANGED <<zoomed, touchZoomState>>
    /\ UNCHANGED <<modalFrame, cacheVars, pageVars, zoomFrame>>

\* touchstart with two fingers on the image container, handleTouchStart
TouchStart ==
    /\ entryScript = "main-modular.js"
    /\ modalOpen
    /\ touchZoomState' = [touchZoomState EXCEPT !.isZooming = TRUE]
    /\ zoomed' = TRUE
    /\ event' = Ev("touchStart", "none", "none", "")
    /\ UNCHANGED zoomTransform
    /\ UNCHANGED <<modalFrame, cacheVars, pageVars, zoomFrame>>

\* touchmove with two fingers whose centre is p, handleTouchMove
TouchMove(p, ratio) ==
    /\ entryScript = "main-modular.js"
    /\ modalOpen
    /\ touchZoomState.isZooming
    /\ LET rect == [width |-> p.width, height |-> p.height]
           clampedScale == Max(10, Min(30, ratio))
           pos == CalculateZoomPosition(p.x, p.y, rect, clampedScale)
       IN /\ touchZoomState' = [touchZoomState EXCEPT !.currentScale = clampedScale]
          /\ zoomTransform' = ApplyZoomTransform(pos.x, pos.y, clampedScale, rect)
    /\ event' = Ev("touchMove", "none", "none", "")
    /\ UNCHANGED zoomed
    /\ UNCHANGED <<modalFrame, cacheVars, pageVars, zoomFrame>>

\* touchend that leaves fewer than two fingers, handleTouchEnd
TouchEnd ==
    /\ entryScript = "main-modular.js"
    /\ modalOpen
    /\ IF touchZoomState.currentScale < 12
       THEN /\ zoomed' = FALSE
            /\ zoomTransform' = NoTransform
            /\ touchZoomState' = TouchIdle
       ELSE /\ touchZoomState' = [touchZoomState EXCEPT !.isZooming = FALSE]
            /\ UNCHANGED <<zoomed, zoomTransform>>
    /\ event' = Ev("touchEnd", "none", "none", "")
    /\ UNCHANGED <<modalFrame, cacheVars, pageVars, zoomFrame>>

\* the loaded page under either entry script; both build the same modal
InitZoom ==
    /\ PageLoaded
    /\ CacheIdle
    /\ ModalConstructed
    /\ AdminIdle
    /\ FormsIdle
    /\ entryScript \in EntryScripts

NextZoom ==
    \/ \E productId \in ProductIds : OpenModal(productId)
    \/ \E p \in PointersInside : ToggleZoom(p)
    \/ \E p \in PointersInside : MouseMove(p)
    \/ TouchStart
    \/ \E p \in PointersInside, ratio \in PinchRatios : TouchMove(p, ratio)
    \/ TouchEnd

SpecZoom == InitZoom /\ [][NextZoom]_vars

\* how far a transform moves the centre of the image on the screen, in
\* twentieths of a pixel: a translate in front of the scale moves it by its
\* pixels; a translate in percent behind scale(s) moves it by s times that
\* share of the box of the image, which fills the container
ScreenShift(t, offset, size) ==
    IF t.order = "translate-scale" THEN offset
    ELSE (t.scale * offset * size) \div 50

\* C20: whatever the pointer inside the container, the transform moves the
\* image by at most width * (s - 1) / 2 and height * (s - 1) / 2, so the
\* scaled image covers the container
C20_ZoomCovers ==
    zoomTransform.kind = "transform" =>
        /\ Abs(ScreenShift(zoomTransform, zoomTransform.x, zoomTransform.width))
               <= zoomTransform.width * (zoomTransform.scale - 10)
        /\ Abs(ScreenShift(zoomTransform, zoomTransform.y, zoomTransform.height))
               <= zoomTransform.height * (zoomTransform.scale - 10)


\* ------------------------------------------------------------------------
\* Properties of opening the modal
\* ------------------------------------------------------------------------
\* the last handler was openModal with an id that no product of the list has
OpenedUnknownId(ev, prods) ==
    /\ ev.name = "openModal"
    /\ \A i \in DOMAIN prods : prods[i].id # ev.query

\* C21: openModal with an id that matches no product of the in-memory list
\* changes nothing of the modal: not whether it is shown, not the saved
\* focus element, the saved scroll offset, the scroll lock or the content
C21_UnknownIdNoOp ==
    [][OpenedUnknownId(event', products) => UNCHANGED modalVars]_vars

C21_Witness ==
    /\ OpenedUnknownId(event, products)
    /\ event.arg = "callback"
    /\ ~modalOpen
    /\ modalContent # Null
    /\ scrollLockY = Null


\* C22: when a 'transitionend' event completes a close, the completion step
\* (dialog closed, scroll lock released, scroll and focus restored) runs
\* once, however often the close action was triggered before
C22_CompletesOnce ==
    [][event'.name = "transitionend" => closeListeners = 1]_vars


\* the dialog is shown and the last modal action on it was an openModal for
\* a product of the list: openModal takes 'closing' away, closeModal sets it
LastActionOpened == modalOpen /\ ~modalClosing

\* C23: an openModal for a product of the list leaves the dialog shown and
\* the scroll lock in force, and they stay so until a close is requested,
\* also when the openModal came while an earlier close was waiting for its
\* transitionend
C23_OpenHolds ==
    /\ [][(event'.name = "openModal" /\ ~OpenedUnknownId(event', products)) =>
              (modalOpen' /\ noScroll' /\ ~modalClosing')]_vars
    /\ [][(LastActionOpened /\ event'.name # "close") =>
              (modalOpen' /\ noScroll')]_vars


\* ------------------------------------------------------------------------
\* Properties of the in-memory list
\* ------------------------------------------------------------------------
\* C24: whatever full fetches, load-more fetches and forced refreshes have
\* succeeded or failed, no two entries of state.products have the same id
C24_ListIdsUnique == NoDuplicateIds(products)


\* ------------------------------------------------------------------------
\* Renders that overlap
\* ------------------------------------------------------------------------
\* C25: whatever category changes and searches were made while render timers
\* were pending, once every timer has fired the container shows the result of
\* the most recent request only; in particular it shows no product twice
C25_SettledRender ==
    timers = << >> =>
        \A i, j \in DOMAIN ProductCards(container) :
            ProductCards(container)[i].id = ProductCards(container)[j].id => i = j


\* ------------------------------------------------------------------------
\* The details button of a card
\* ------------------------------------------------------------------------
\* C26: a click on the details button of any card of the container opens
\* the modal, filled with the product of that card
C26_DetailsOpens ==
    [][\A i \in DOMAIN container :
          ClickDetails(i) =>
             (modalOpen' /\ modalContent' = JSString(container[i].id))]_vars


\* ------------------------------------------------------------------------
\* Paging through an unchanging collection, every query answered
\* ------------------------------------------------------------------------
\* the letters of the document names, in the order of the name index
NameLetters == <<"a", "b", "c", "d", "e", "f", "g">>

LetterRank(c) == CHOOSE k \in DOMAIN NameLetters : NameLetters[k] = c

\* a collection of n active products and one inactive document, listed as
\* the index on name lists them; the ids run against the names
PagingRemote(n) ==
    [i \in 1..(n + 1) |->
        [id |-> ToString(200 - i), active |-> (i # 1),
         name |-> <<NameLetters[((i - 1) \div 7) + 1], NameLetters[((i - 1) % 7) + 1]>>,
         category |-> IF i % 2 = 0 THEN "decor" ELSE "kitchen",
         description |-> << >>]]

\* numbers of active products: none, less than a page, a page, more
CollectionSizes == {0, 2, 19, 20, 21, 40}

\* a < b for two names of two letters
NameBefore(a, b) ==
    \/ LetterRank(a[1]) < LetterRank(b[1])
    \/ a[1] = b[1] /\ LetterRank(a[2]) < LetterRank(b[2])

ActiveDocs(coll) == SelectSeq(coll, LAMBDA d : d.active)

InitPaging ==
    /\ CatalogConstructed
    /\ ModalConstructed
    /\ ExtraIdle
    /\ CacheIdle
    /\ remote \in {PagingRemote(n) : n \in CollectionSizes}
    /\ firebaseReady = TRUE

\* initialize, then load-more triggers, every query answered, and the
\* category bar in between
NextPaging ==
    \/ AppInitialize
    \/ LoadMore
    \/ FetchSucceeds
    \/ \E btn \in Range(CategoryButtons) : CategoryClick(btn)
    \/ \E i \in DOMAIN timers : TimerFire(i)

SpecPaging == InitPaging /\ [][NextPaging]_vars

\* every query answered and no further page announced
PagingDone == phase = "running" /\ inflight = << >> /\ ~hasMoreProducts

\* C27: on an unchanging collection of N active products, with no failing
\* query, the full fetch and the load-more fetches are never more than
\* floor(N / 20) + 1; once that many are answered hasMore is false; and when
\* hasMore is false the list holds every active product once, in name order
C27_PagingTerminates ==
    LET act == ActiveDocs(remote)
        most == (Len(act) \div PRODUCTS_PER_PAGE) + 1
    IN /\ fetches <= most
       /\ (phase = "running" /\ inflight = << >> /\ fetches = most)
              => ~hasMoreProducts
       /\ PagingDone =>
              /\ Len(products) = Len(act)
              /\ \A d \in Range(act) :
                    Cardinality({i \in DOMAIN products : products[i].id = d.id}) = 1
              /\ \A i, j \in DOMAIN products :
                    i < j => NameBefore(products[i].name, products[j].name)

\* 21 active products: the second fetch brought the last one
C27_Witness ==
    /\ PagingDone
    /\ Len(products) = PRODUCTS_PER_PAGE + 1
    /\ fetches = 2
    /\ event.arg = "more"


\* ------------------------------------------------------------------------
\* The revision that starts from the cache: App.initialize and
\* App.updateCacheInBackground of main.js, and initialize of main-modular.js
\* with fetchProducts, updateCacheInBackground, forceRefresh and loadProducts
\* of the products module that fetches ./src/db/products.json
\* ------------------------------------------------------------------------
MaxRenders == 2

revalidateFrame ==
    <<now, ticks, cacheVersion, firebaseReady, remote, lastVisibleDoc,
      hasMoreProducts, isLoadingMore, activeCats, searchValue, rendered,
      pagingOnly, modalVars, categoryVars, adminVars, otherVars>>

\* loadProducts(filter = 'all') of this revision: fade-out of the cards shown,
\* else renderProducts, which clears the container and fills it 200 ms later
LoadProductsCached(cont, tms, list) ==
    IF Len(ProductCards(cont)) > 0
    THEN [container |-> cont,
          timers |-> Append(tms, [kind |-> "fadeOut", delay |-> FADE_OUT_DELAY,
                                  products |-> list])]
    ELSE [container |-> << >>,
          timers |-> Append(tms, [kind |-> "fill", delay |-> SEARCH_RENDER_DELAY,
                                  products |-> list])]

\* what a cache.set(data) leaves, the write refused (quota) or not
CacheWrite(data, quotaError) ==
    IF quotaError
    THEN [storage |-> storage, setRet |-> FALSE, lastWrite |-> lastWrite]
    ELSE [storage |-> JSONStringify([data |-> data, version |-> cacheVersion,
                                     timestamp |-> now]),
          setRet |-> TRUE,
          lastWrite |-> [data |-> data, time |-> now, version |-> cacheVersion]]

\* a request for ./src/db/products.json that is under way; current is the
\* array handed to updateCacheInBackground
Request(caller, current) ==
    [caller |-> caller, loadMore |-> FALSE, cursor |-> Null, current |-> current]

InitLog(steps) == [steps |-> steps, fresh |-> Null]

\* initialize(): cache.get(), then either the cached list is rendered and
\* updateCacheInBackground is called without await, or fetchProducts is awaited
InitializeCached ==
    /\ phase = "constructed"
    /\ LET out == CacheGetOutcome(storage, now, cacheVersion) IN
       /\ storage' = out.storage
       /\ lastWrite' = IF out.storage = NoEntry THEN Null ELSE lastWrite
       /\ ret' = out.ret
       /\ IF out.ret # Null
          THEN LET r == LoadProductsCached(container, timers, out.ret.items) IN
               /\ products' = out.ret.items
               /\ container' = r.container
               /\ timers' = r.timers
               /\ inflight' = <<Request("background", out.ret)>>
               /\ probe' = InitLog(<<"initializeDOM", "cache.get", "loadProducts",
                                     "setupEventListeners", "initHeroSlideshow",
                                     "updateCacheInBackground", "return">>)
               /\ event' = Ev("initialize", "issued", "resolved", "cache")
               /\ UNCHANGED fetches
          ELSE /\ inflight' = <<Request("init", Null)>>
               /\ fetches' = fetches + 1
               /\ probe' = InitLog(<<"initializeDOM", "cache.get", "fetchProducts">>)
               /\ event' = Ev("initialize", "issued", "pending", "fetch")
               /\ UNCHANGED <<products, container, timers>>
    /\ phase' = "running"
    /\ UNCHANGED <<setRet, revalidateFrame>>

\* app.forceRefresh(): cache.clear(), then fetchProducts up to its await
ForceRefreshCached ==
    /\ phase = "running"
    /\ fetches < MaxFetches
    /\ storage' = NoEntry
    /\ lastWrite' = Null
    /\ inflight' = Append(inflight, Request("refresh", Null))
    /\ fetches' = fetches + 1
    /\ event' = Ev("forceRefresh", "issued", "pending", "")
    /\ UNCHANGED <<products, container, timers, probe, ret, setRet, phase,
                   revalidateFrame>>

\* what the server answers to a request
Responses ==
    [kind : {"ok"}, data : CacheLists]
        \cup { [kind |-> "notOk", data |-> Null], [kind |-> "error", data |-> Null] }

\* the list that updateCacheInBackground compares the response with:
\* this.products in main.js, the parameter currentProducts in the module
ComparedList(script, req, list) ==
    IF script = "main.js" THEN Array(list) ELSE req.current

\* the response of request i arrives: the rest of fetchProducts and of its
\* caller (initialize or forceRefresh)
FetchSettlesCached(i, response, quotaError) ==
    /\ i \in DOMAIN inflight
    /\ inflight[i].caller \in {"init", "refresh"}
    /\ inflight' = RemoveAt(inflight, i)
    /\ IF response.kind = "ok"
       THEN LET w == CacheWrite(response.data, quotaError)
                first == LoadProductsCached(container, timers, response.data.items)
                \* main.js renders in fetchProducts, and forceRefresh renders again
                second == IF entryScript = "main.js" /\ inflight[i].caller = "refresh"
                          THEN LoadProductsCached(first.container, first.timers,
                                                  response.data.items)
                          ELSE first
            IN /\ Len(second.timers) <= MaxRenders
               /\ products' = response.data.items
               /\ storage' = w.storage
               /\ setRet' = w.setRet
               /\ lastWrite' = w.lastWrite
               /\ container' = second.container
               /\ timers' = second.timers
               /\ event' = Ev("settle", "ok", "resolved", inflight[i].caller)
       ELSE \* the catch block: the alert; main.js swallows the error and
            \* its forceRefresh goes on to loadProducts
            LET r == IF entryScript = "main.js" /\ inflight[i].caller = "refresh"
                     THEN LoadProductsCached(<<ErrorMessage>>, timers, products)
                     ELSE [container |-> <<ErrorMessage>>, timers |-> timers]
            IN /\ Len(r.timers) <= MaxRenders
               /\ container' = r.container
               /\ timers' = r.timers
               /\ event' = Ev("settle", "failed",
                              IF entryScript = "main.js" \/ inflight[i].caller = "init"
                              THEN "resolved" ELSE "rejected",
                              inflight[i].caller)
               /\ UNCHANGED <<products, storage, setRet, lastWrite>>
    /\ UNCHANGED <<fetches, probe, ret, phase, revalidateFrame>>

\* the response of the background request i arrives: the rest of
\* updateCacheInBackground
RevalidateSettles(i, response, quotaError) ==
    /\ i \in DOMAIN inflight
    /\ inflight[i].caller = "background"
    /\ inflight' = RemoveAt(inflight, i)
    /\ probe' = [probe EXCEPT !.fresh = response.data]
    /\ IF /\ response.kind = "ok"
          /\ response.data # ComparedList(entryScript, inflight[i], products)
       THEN LET w == CacheWrite(response.data, quotaError) IN
            /\ storage' = w.storage
            /\ setRet' = w.setRet
            /\ lastWrite' = w.lastWrite
            /\ event' = Ev("revalidate", response.kind, "resolved", "set")
       ELSE /\ event' = Ev("revalidate", response.kind, "resolved", "skip")
            /\ UNCHANGED <<storage, setRet, lastWrite>>
    /\ UNCHANGED <<products, container, timers, fetches, ret, phase,
                   revalidateFrame>>

\* a timer of loadProducts or renderProducts fires; renderProducts of main.js
\* reads this.products, the one of the module its parameter
RenderStep(i) ==
    /\ i \in DOMAIN timers
    /\ timers[i].kind \in {"fadeOut", "fill"}
    /\ CanFire(timers, i)
    /\ IF timers[i].kind = "fadeOut"
       THEN /\ container' = << >>
            /\ timers' = Append(RemoveAt(timers, i),
                                [kind |-> "fill", delay |-> SEARCH_RENDER_DELAY,
                                 products |-> timers[i].products])
       ELSE /\ container' = container \o
                    Cards(IF entryScript = "main.js" THEN products
                          ELSE timers[i].products)
            /\ timers' = RemoveAt(timers, i)
    /\ event' = Ev("timer", "none", "none", timers[i].kind)
    /\ UNCHANGED <<products, inflight, fetches, probe, storage, ret, setRet,
                   lastWrite, phase, revalidateFrame>>

InitRevalidate ==
    /\ CatalogConstructed
    /\ ModalConstructed
    /\ AdminIdle
    /\ FormsIdle
    /\ entryScript \in EntryScripts
    /\ remote = SmallRemote
    /\ firebaseReady = TRUE
    /\ storage \in InitialStorage
    /\ now \in {0, CACHE_DURATION + 1}
    /\ ticks = 0
    /\ cacheVersion = 1
    /\ ret = NotCalled
    /\ setRet = TRUE
    /\ lastWrite = Null

NextRevalidate ==
    \/ InitializeCached
    \/ ForceRefreshCached
    \/ \E i \in DOMAIN inflight, response \in Responses, q \in BOOLEAN :
          FetchSettlesCached(i, response, q)
    \/ \E i \in DOMAIN inflight, response \in Responses, q \in BOOLEAN :
          RevalidateSettles(i, response, q)
    \/ \E i \in DOMAIN timers : RenderStep(i)

SpecRevalidate == InitRevalidate /\ [][NextRevalidate]_vars

\* position of a step in the log of initialize, 0 if it did not run
StepIndex(steps, name) ==
    IF \E k \in DOMAIN steps : steps[k] = name
    THEN CHOOSE k \in DOMAIN steps : steps[k] = name
    ELSE 0

\* C28: the background revalidation is started after the initial render was
\* issued and initialize returns without waiting for it; when its response
\* arrives, or fails to, the list in memory and the cards are left as they
\* are, and cache.set is called if and only if the fetched data differs from
\* the list in memory
C28_Revalidation ==
    /\ [][(event'.name = "initialize" /\ event'.arg = "cache") =>
            /\ 0 < StepIndex(probe'.steps, "loadProducts")
            /\ StepIndex(probe'.steps, "loadProducts")
                  < StepIndex(probe'.steps, "updateCacheInBackground")
            /\ event'.promise = "resolved"
            /\ \E k \in DOMAIN inflight' : inflight'[k].caller = "background"]_vars
    /\ [][event'.name = "revalidate" =>
            /\ products' = products
            /\ container' = container
            /\ timers' = timers
            /\ (storage' # storage => event'.arg = "set")
            /\ (event'.arg = "set") <=>
                   (event'.query = "ok" /\ probe'.fresh # Array(products))]_vars


\* ------------------------------------------------------------------------
\* The order of the steps of initialize
\* ------------------------------------------------------------------------
\* the query of loadProductsData is not answered yet
InitialLoadPending == \E k \in DOMAIN inflight : inflight[k].caller = "init"

\* C29: initialization loads the categories, then the products, then wires
\* the event listeners, each step after the previous one has completed: no
\* product query is under way while the categories are being loaded, and no
\* handler of a listener runs while the products are being loaded
C29_InitOrder ==
    /\ [](phase = "categories" => inflight = << >>)
    /\ [][event'.name \in {"category", "loadMore"} => ~InitialLoadPending]_vars


\* ------------------------------------------------------------------------
\* The category of a product from the admin form to the storefront buttons
\* ------------------------------------------------------------------------
\* the categories collection in the order of its name index: one document
\* with a slug, two as the admin category form writes them (name only)
ShopCategoryDocs ==
    << [id |-> "c1", name |-> JSString(<<"D", "e", "c", "o", "r">>),
        slug |-> "decor"],
       [id |-> "c2", name |-> JSString(<<"P", "o", "t", "s">>), slug |-> ""],
       [id |-> "c5", name |-> JSString(<<"m", "u", "g", "s">>), slug |-> ""] >>

\* updateCategorySelects: option.value = cat.name for every category
UpdateCategorySelects(allCategories) ==
    [i \in DOMAIN allCategories |-> Text(allCategories[i].name.value)]

\* the document the product form saves for the option chosen:
\* category: document.getElementById('product-category').value, active checked
ProductData(id, option) ==
    [id |-> id, active |-> TRUE, name |-> <<"P", "o", "t">>,
     category |-> option, description |-> << >>]

\* the products collection after two products were saved through the form,
\* each with a category chosen from the list
ShopRemotes ==
    { <<ProductData("p1", o1), ProductData("p2", o2)>> :
         o1 \in Range(UpdateCategorySelects(ShopCategoryDocs)),
         o2 \in Range(UpdateCategorySelects(ShopCategoryDocs)) }

\* the category buttons of the page once renderCategoryButtons has run
PageButtons == <<"all">> \o categoryButtons

\* getActiveCategories over the buttons of the page
ActiveCategories(active) ==
    SelectSeq(PageButtons, LAMBDA c : c \in active /\ c # "all")

\* click on a category button that renderCategoryButtons has added
CategoryButtonClick(btn) ==
    /\ phase = "running"
    /\ btn \in Range(categoryButtons)
    /\ LET act == HandleSpecificCategoryClick(activeCats, btn)
           selected == ActiveCategories(act)
           filterParam == IF Len(selected) > 0 THEN FilterArray(selected) ELSE FilterAll
           r == LoadProducts(container, timers, products, filterParam, FALSE,
                             "button", act)
       IN /\ activeCats' = act
          /\ IF Len(selected) = 0 /\ ~HasSearch(searchValue) /\ "all" \notin act
             THEN \* hideIfNoSelection
                  /\ container' = << >>
                  /\ rendered' = Null
                  /\ UNCHANGED timers
             ELSE /\ Len(r.timers) <= MaxTimers
                  /\ container' = r.container
                  /\ timers' = r.timers
                  /\ rendered' = r.rendered
    /\ event' = Ev("category", "none", "none", btn)
    /\ pagingOnly' = FALSE
    /\ UNCHANGED <<phase, firebaseReady, remote, products, lastVisibleDoc,
                   hasMoreProducts, isLoadingMore, inflight, fetches, searchValue>>
    /\ UNCHANGED <<cacheVars, modalVars, extraVars>>

InitShop ==
    /\ CatalogConstructed
    /\ ModalConstructed
    /\ ExtraIdle
    /\ CacheIdle
    /\ remote \in ShopRemotes
    /\ firebaseReady = TRUE

\* the storefront on the products page: categories, products, the buttons
NextShop ==
    \/ InitializeCategories
    \/ CategoriesSettle([kind |-> "snapshot", docs |-> ShopCategoryDocs])
    \/ FetchSucceeds
    \/ \E btn \in Range(categoryButtons) : CategoryButtonClick(btn)
    \/ \E i \in DOMAIN timers : TimerFire(i)

SpecShop == InitShop /\ [][NextShop]_vars

\* C30: when the products are loaded and the render of a click on category
\* buttons is complete, every active product that was saved with the option
\* of an active category is among the cards
C30_SavedShownUnderCategory ==
    (/\ rendered # Null
     /\ rendered.origin = "button"
     /\ rendered.products = MapDocs(QueryDocs(remote, Null))) =>
        \A k \in DOMAIN ShopCategoryDocs :
            CategorySlug(ShopCategoryDocs[k]) \in rendered.active =>
                \A i \in DOMAIN remote :
                    (/\ remote[i].active
                     /\ remote[i].category = UpdateCategorySelects(ShopCategoryDocs)[k])
                        => Card(MapDoc(remote[i])) \in Range(container)

====
